---- MODULE Spec2Model ----
(***************************************************************************)
(* Logo placement pipeline: the batch orchestrator (src/src/main.py), the  *)
(* location resolvers (LogoPositioner, SimpleLogoPositioner,               *)
(* CoordinateDetector) and the compositor (resize_logo,                    *)
(* merge_logo_on_image).                                                   *)
(*                                                                         *)
(* Strings are sequences of one-character strings, so that upper(),        *)
(* lower(), strip() and the `in` substring test are computed.              *)
(***************************************************************************)
EXTENDS Integers, Sequences, FiniteSets, TLC

VARIABLES
  \* ---- process_all_images (src/src/main.py) ----
  jobs,        \* job_data: the parsed rows, or None when parsing raised
  pc,          \* position of process_all_images
  idx,         \* 1-based index of the job being processed
  run,         \* the place_logo_on_image call in progress (or None)
  interm,      \* intermediate_image_path of the current job
  log,         \* lines appended by log_error
  started,     \* indices of the jobs whose loop body was entered, in order
  placed,      \* finished place_logo_on_image calls, in order
  exported,    \* export_final_image calls, in order
  progress,    \* values handed to progress_callback, in order
  \* ---- location resolvers ----
  rIn, rOut,
  \* ---- merge_logo_on_image ----
  bIn, bOut,
  \* ---- resize_logo ----
  zIn, zOut,
  \* ---- product photo lookup (find_image, find_image_file) ----
  aIn, aOut,
  \* ---- GUI worker threads (src/gui/interface.py) ----
  threads,     \* one record per thread spawned by start_processing
  instances,   \* number of mediapipe Pose objects constructed so far
  \* ---- remove_background ----
  gIn, gOut

orchVars   == <<jobs, pc, idx, run, interm, log, started, placed, exported, progress>>
resVars    == <<rIn, rOut>>
blendVars  == <<bIn, bOut>>
sizeVars   == <<zIn, zOut>>
assetVars  == <<aIn, aOut>>
guiVars    == <<threads, instances>>
bgVars     == <<gIn, gOut>>
vars       == <<jobs, pc, idx, run, interm, log, started, placed, exported, progress,
               rIn, rOut, bIn, bOut, zIn, zOut, aIn, aOut, threads, instances, gIn, gOut>>

\* Python's None: the empty tuple, which TLC compares with every tuple, record
\* and function of the model.  Labels are never None (place_logo_on_image
\* applies str() to the cell), so None never stands where "" can.
None == <<>>

(***************************************************************************)
(* String helpers                                                          *)
(***************************************************************************)
Lows == <<"a","b","c","d","e","f","g","h","i","j","k","l","m",
          "n","o","p","q","r","s","t","u","v","w","x","y","z">>
Ups  == <<"A","B","C","D","E","F","G","H","I","J","K","L","M",
          "N","O","P","Q","R","S","T","U","V","W","X","Y","Z">>

UpperChar(c) ==
  IF \E i \in 1..26 : Lows[i] = c
  THEN Ups[CHOOSE i \in 1..26 : Lows[i] = c]
  ELSE c

LowerChar(c) ==
  IF \E i \in 1..26 : Ups[i] = c
  THEN Lows[CHOOSE i \in 1..26 : Ups[i] = c]
  ELSE c

\* str.upper(), str.lower()
Upper(s) == [i \in 1..Len(s) |-> UpperChar(s[i])]
Lower(s) == [i \in 1..Len(s) |-> LowerChar(s[i])]

Whitespace == {" "}

RECURSIVE LStrip(_)
LStrip(s) == IF s # <<>> /\ Head(s) \in Whitespace THEN LStrip(Tail(s)) ELSE s

RECURSIVE RStrip(_)
RStrip(s) ==
  IF s # <<>> /\ s[Len(s)] \in Whitespace THEN RStrip(SubSeq(s, 1, Len(s) - 1)) ELSE s

\* str.strip()
Strip(s) == RStrip(LStrip(s))

\* `sub in s`
Contains(s, sub) ==
  \E i \in 1..(Len(s) - Len(sub) + 1) : SubSeq(s, i, i + Len(sub) - 1) = sub

\* int(): truncation toward zero of num/den, den > 0
IntTrunc(num, den) == IF num >= 0 THEN num \div den ELSE -((-num) \div den)

Min(a, b) == IF a < b THEN a ELSE b
Max(a, b) == IF a > b THEN a ELSE b

(***************************************************************************)
(* LogoPositioner.get_logo_position (src/src/logo_positioner.py)           *)
(***************************************************************************)
LocationMap ==
  << [key |-> <<"F","U","L","L","-","B","A","C","K">>, idx |-> 1],
     [key |-> <<"F","U","L","L","-","F","R","O","N","T">>, idx |-> 2],
     [key |-> <<"L","E","F","T","-","B","I","C","E","P">>, idx |-> 3],
     [key |-> <<"R","I","G","H","T","-","B","I","C","E","P">>, idx |-> 4],
     [key |-> <<"L","E","F","T","-","C","H","E","S","T">>, idx |-> 5],
     [key |-> <<"R","I","G","H","T","-","C","H","E","S","T">>, idx |-> 6],
     [key |-> <<"L","E","F","T","-","C","O","L","L","A","R">>, idx |-> 7],
     [key |-> <<"R","I","G","H","T","-","C","O","L","L","A","R">>, idx |-> 8],
     [key |-> <<"L","E","F","T","-","C","U","F","F">>, idx |-> 9],
     [key |-> <<"R","I","G","H","T","-","C","U","F","F">>, idx |-> 10],
     [key |-> <<"L","E","F","T","-","H","I","P">>, idx |-> 11],
     [key |-> <<"R","I","G","H","T","-","H","I","P">>, idx |-> 12],
     [key |-> <<"L","E","F","T","-","S","L","E","E","V","E">>, idx |-> 13],
     [key |-> <<"R","I","G","H","T","-","S","L","E","E","V","E">>, idx |-> 14],
     [key |-> <<"L","E","F","T","-","T","H","I","G","H","-","H","I","G","H">>, idx |-> 15],
     [key |-> <<"R","I","G","H","T"," ","T","H","I","G","H","-","H","I","G","H">>, idx |-> 16],
     [key |-> <<"O","N","-","P","O","C","K","E","T">>, idx |-> 17],
     [key |-> <<"B","A","C","K","-","Y","O","K","E">>, idx |-> 18],
     [key |-> <<"F","U","L","L","-","B","A","C","K"," ","&"," ","F","U","L","L","-","F","R","O","N","T">>, idx |-> 19],
     [key |-> <<"L","E","F","T","-","B","I","C","E","P","-","R","I","G","H","T","-","B","I","C","E","P">>, idx |-> 20],
     [key |-> <<"L","E","F","T","-","C","H","E","S","T","-","L","E","F","T","-","B","I","C","E","P","-","R","I","G","H","T","-","B","I","C","E","P">>, idx |-> 21],
     [key |-> <<"L","E","F","T","-","C","H","E","S","T","-","R","I","G","H","T","-","B","I","C","E","P">>, idx |-> 22],
     [key |-> <<"L","E","F","T","-","C","H","E","S","T","-","R","I","G","H","T","-","S","L","E","E","V","E">>, idx |-> 23],
     [key |-> <<"L","E","F","T","-","S","L","E","E","V","E","-","R","I","G","H","T","-","S","L","E","E","V","E">>, idx |-> 24],
     [key |-> <<"R","I","G","H","T","-","C","H","E","S","T","-","L","E","F","T","-","B","I","C","E","P">>, idx |-> 25],
     [key |-> <<"R","I","G","H","T","-","C","H","E","S","T","-","L","E","F","T","-","S","L","E","E","V","E">>, idx |-> 26],
     [key |-> <<"R","I","G","H","T","-","C","H","E","S","T","-","L","F","T","-","B","I","C","E","P","-","R","I","G","H","T","-","B","I","C","E","P">>, idx |-> 27],
     [key |-> <<"F","U","L","L","-","F","R","O","N","T","-","F","U","L","L","-","B","A","C","K">>, idx |-> 28],
     [key |-> <<"L","E","F","T","-","C","H","E","S","T","-","F","U","L","L","-","B","A","C","K">>, idx |-> 29],
     [key |-> <<"R","I","G","H","T","-","C","H","E","S","T","-","F","U","L","L","-","B","A","C","K">>, idx |-> 30],
     [key |-> <<"F","R","O","N","T","-","C","R","O","W","N">>, idx |-> 31],
     [key |-> <<"C","A","P","-","B","A","C","K">>, idx |-> 32],
     [key |-> <<"C","A","P","-","S","I","D","E">>, idx |-> 33],
     [key |-> <<"C","A","P","-","F","R","O","N","T","-","S","I","D","E">>, idx |-> 34],
     [key |-> <<"L","O","W","E","R","-","L","E","F","T","-","C","R","O","W","N">>, idx |-> 35],
     [key |-> <<"L","O","W","E","R","-","R","I","G","H","T","-","C","R","O","W","N">>, idx |-> 36],
     [key |-> <<"C","o","r","n","e","r","-","A","n","g","l","e","d","-","T","o","w","e","l">>, idx |-> 37],
     [key |-> <<"F","R","O","N","T","_","C","E","N","T","E","R">>, idx |-> 38],
     [key |-> <<"F","R","O","N","T"," ","(","O","N"," ","B","A","G",")">>, idx |-> 39],
     [key |-> <<"O","N"," ","P","O","C","K","E","T"," ","(","O","N"," ","B","A","G",")">>, idx |-> 40] >>

\* location_map.get(key): the landmark index, or NoIndex for None (an integer
\* that is no key of any keypoint dict).
NoIndex == 0 - 1

LocationMapGet(k) ==
  IF \E i \in 1..Len(LocationMap) : LocationMap[i].key = k
  THEN LocationMap[CHOOSE i \in 1..Len(LocationMap) : LocationMap[i].key = k].idx
  ELSE NoIndex

Vocabulary == {LocationMap[i].key : i \in 1..Len(LocationMap)}

\* The pose model yields 33 landmarks, indexed 0..32.
NumLandmarks == 33
LEFT_SHOULDER == 11
RIGHT_SHOULDER == 12
LEFT_ELBOW == 13

\* Landmark coordinates are normalized floats; the model takes them as
\* multiples of 1/KpDen (exact in binary floating point).
KpDen == 4

\* detect_human_keypoints: None when no pose is found, else every landmark
\* as (int(lm.x * w), int(lm.y * h)).
detect_human_keypoints(pose, h, w) ==
  IF pose = None THEN None
  ELSE [i \in DOMAIN pose |->
          <<IntTrunc(pose[i][1] * w, KpDen), IntTrunc(pose[i][2] * h, KpDen)>>]

\* With keypoints None, keypoints.keys() (line 99) raises AttributeError and the
\* handler (lines 105-108) returns None.
LogoPositioner_get_logo_position(keypoints, location_key) ==
  IF keypoints = None THEN None
  ELSE LET landmark_index == LocationMapGet(Upper(location_key))
       IN  IF landmark_index = NoIndex \/ landmark_index \notin DOMAIN keypoints
           THEN None
           ELSE keypoints[landmark_index]

(***************************************************************************)
(* SimpleLogoPositioner.get_logo_position (src/src/logo_positioner_simple) *)
(***************************************************************************)
KwFRONT  == <<"F","R","O","N","T">>
KwBACK   == <<"B","A","C","K">>
KwLEFT   == <<"L","E","F","T">>
KwRIGHT  == <<"R","I","G","H","T">>
KwCHEST  == <<"C","H","E","S","T">>
KwSLEEVE == <<"S","L","E","E","V","E">>

\* A version that tests BACK before FRONT.
SimpleLogoPositioner_get_logo_position_BackFirst(location_key, h, w) ==
  IF location_key = <<>> THEN None
  ELSE LET label == Strip(Upper(location_key))
       IN  IF      Contains(label, KwBACK)   THEN <<w \div 2, h \div 2>>
           ELSE IF Contains(label, KwFRONT)  THEN <<w \div 2, h \div 3>>
           ELSE IF Contains(label, KwLEFT)   THEN <<w \div 4, h \div 3>>
           ELSE IF Contains(label, KwRIGHT)  THEN <<(3 * w) \div 4, h \div 3>>
           ELSE IF Contains(label, KwCHEST)  THEN <<w \div 2, h \div 4>>
           ELSE IF Contains(label, KwSLEEVE) THEN <<w \div 2, h \div 2>>
           ELSE <<w \div 2, h \div 3>>

SimpleLogoPositioner_get_logo_position(location_key, h, w) ==
  IF location_key = <<>> THEN None      \* `if not location_key`
  ELSE LET label == Strip(Upper(location_key))
       IN  IF      Contains(label, KwFRONT)  THEN <<w \div 2, h \div 3>>
           ELSE IF Contains(label, KwBACK)   THEN <<w \div 2, h \div 2>>
           ELSE IF Contains(label, KwLEFT)   THEN <<w \div 4, h \div 3>>
           ELSE IF Contains(label, KwRIGHT)  THEN <<(3 * w) \div 4, h \div 3>>
           ELSE IF Contains(label, KwCHEST)  THEN <<w \div 2, h \div 4>>
           ELSE IF Contains(label, KwSLEEVE) THEN <<w \div 2, h \div 2>>
           ELSE <<w \div 2, h \div 3>>

(***************************************************************************)
(* CoordinateDetector (src/src/coordinate_detector.py)                     *)
(* A pose is a function from landmark index to <<x, y>>, the normalized    *)
(* coordinates in units of 1/KpDen.                                        *)
(***************************************************************************)
Placement(x, y, lw, lh, type) ==
  [x |-> x, y |-> y, width |-> lw, height |-> lh, placement_type |-> type]

place_on_chest(h, w, lh, lw, pose) ==
  IF pose # None
  THEN LET left_shoulder  == pose[LEFT_SHOULDER]
           right_shoulder == pose[RIGHT_SHOULDER]
           \* int((ls.x + rs.x) / 2 * img_width)
           chest_x == IntTrunc((left_shoulder[1] + right_shoulder[1]) * w, 2 * KpDen)
           \* int((ls.y + 0.3) * img_height)
           chest_y == IntTrunc((10 * left_shoulder[2] + 3 * KpDen) * h, 10 * KpDen)
       IN  Placement(Max(0, Min(chest_x - lw \div 2, w - lw)),
                     Max(0, Min(chest_y, h - lh)), lw, lh, "chest")
  ELSE Placement((w - lw) \div 2, h \div 4, lw, lh, "chest")

place_on_sleeve(h, w, lh, lw, pose) ==
  IF pose # None
  THEN LET left_shoulder == pose[LEFT_SHOULDER]
           left_elbow    == pose[LEFT_ELBOW]
           x == IntTrunc(left_shoulder[1] * w, KpDen) - lw
           y == IntTrunc((left_shoulder[2] + left_elbow[2]) * h, 2 * KpDen)
       IN  Placement(Max(0, Min(x, w - lw)), Max(0, Min(y, h - lh)), lw, lh, "sleeve")
  ELSE Placement(w \div 8, h \div 3, lw, lh, "sleeve")

\* A version that centres the decoration vertically as well.
place_on_back_CentresVertically(h, w, lh, lw) ==
  Placement((w - lw) \div 2, (h - lh) \div 6, lw, lh, "back")

place_on_back(h, w, lh, lw)   == Placement((w - lw) \div 2, h \div 6, lw, lh, "back")
place_on_collar(h, w, lh, lw) == Placement((w - lw) \div 2, h \div 20, lw, lh, "collar")
place_on_pocket(h, w, lh, lw) == Placement(w \div 6, h \div 3, lw, lh, "pocket")

grid_size == 8

\* _smart_placement scans the cells (i, j), i, j < grid_size - 2, whose origin
\* lets the logo fit and keeps the first one of least grayscale variance.  Which
\* one that is depends on the photo's pixels: every fitting cell is a possible
\* result.  An empty cell (cell_width or cell_height 0) has variance NaN, which
\* compares false, so (w // 2, h // 2) is kept; so it is when no cell fits.
smart_placements(h, w, lh, lw) ==
  LET cell_width  == w \div grid_size
      cell_height == h \div grid_size
      fitting == {c \in (0..(grid_size - 3)) \X (0..(grid_size - 3)) :
                    /\ c[1] * cell_width + lw <= w
                    /\ c[2] * cell_height + lh <= h}
  IN  IF cell_width = 0 \/ cell_height = 0 \/ fitting = {}
      THEN {Placement(w \div 2, h \div 2, lw, lh, "smart")}
      ELSE {Placement(c[1] * cell_width, c[2] * cell_height, lw, lh, "smart") : c \in fitting}

WordsChest  == {<<"c","h","e","s","t">>, <<"f","r","o","n","t">>, <<"c","e","n","t","e","r">>}
WordsSleeve == {<<"s","l","e","e","v","e">>, <<"a","r","m">>}
WordsBack   == {<<"b","a","c","k">>}
WordsCollar == {<<"c","o","l","l","a","r">>, <<"n","e","c","k">>}
WordsPocket == {<<"p","o","c","k","e","t">>}

AnyWord(words, location_lower, word_location_lower) ==
  \E word \in words : Contains(location_lower, word) \/ Contains(word_location_lower, word)

\* _calculate_optimal_placement: the set of results it can return.
calculate_optimal_placement(h, w, lh, lw, pose, decoration_location, location_as_per_word) ==
  LET location_lower      == Lower(decoration_location)
      word_location_lower == Lower(location_as_per_word)
  IN  IF      AnyWord(WordsChest, location_lower, word_location_lower)
      THEN {place_on_chest(h, w, lh, lw, pose)}
      ELSE IF AnyWord(WordsSleeve, location_lower, word_location_lower)
      THEN {place_on_sleeve(h, w, lh, lw, pose)}
      ELSE IF AnyWord(WordsBack, location_lower, word_location_lower)
      THEN {place_on_back(h, w, lh, lw)}
      ELSE IF AnyWord(WordsCollar, location_lower, word_location_lower)
      THEN {place_on_collar(h, w, lh, lw)}
      ELSE IF AnyWord(WordsPocket, location_lower, word_location_lower)
      THEN {place_on_pocket(h, w, lh, lw)}
      ELSE smart_placements(h, w, lh, lw)

(***************************************************************************)
(* Inputs of the resolvers                                                 *)
(***************************************************************************)
MaxImg  == 3     \* photo sides range over 1..MaxImg and grid_size
MaxLogo == 3     \* decoration sides range over 1..MaxLogo

UnknownLabel == <<"U","N","K","N","O","W","N","-","Z","O","N","E","-","X","Y","Z">>
PaddedLabel  == <<" ","f","u","l","l","-","b","a","c","k"," ">>
LowerLabel   == <<"l","e","f","t","-","c","h","e","s","t">>
EmptyLabel   == <<>>

ResolveLabels == Vocabulary \cup {UnknownLabel, PaddedLabel, LowerLabel, EmptyLabel}

\* Two complete landmark sets: one inside the frame, one partly outside it.
PoseInFrame  == [i \in 0..(NumLandmarks - 1) |-> <<1 + (i % (KpDen - 1)), 1 + ((i \div 3) % (KpDen - 1))>>]
PoseOffFrame == [i \in 0..(NumLandmarks - 1) |-> <<(i % 7) - 2, KpDen + (i % 2)>>]
Poses == {None, PoseInFrame, PoseOffFrame}

ImgDims  == (1..MaxImg) \cup {grid_size}
LogoDims == 1..MaxLogo

DecorationLocations == {<<>>, <<"B","a","c","k">>, <<"P","o","c","k","e","t">>}

OrchIdle ==
  /\ jobs = None /\ pc = "idle" /\ idx = 0 /\ run = None /\ interm = None
  /\ log = <<>> /\ started = <<>> /\ placed = <<>> /\ exported = <<>> /\ progress = <<>>
ResIdle   == rIn = None /\ rOut = None
BlendIdle == bIn = None /\ bOut = <<>>
SizeIdle  == zIn = None /\ zOut = None
AssetIdle == aIn = None /\ aOut = None
GuiIdle   == threads = <<>> /\ instances = 0
BgIdle    == gIn = None /\ gOut = None

ResolveInit ==
  /\ rIn \in [label : ResolveLabels, decoration_location : DecorationLocations,
              pose : Poses, h : ImgDims, w : ImgDims, lh : LogoDims, lw : LogoDims]
  /\ rOut = None
  /\ OrchIdle /\ BlendIdle /\ SizeIdle /\ AssetIdle /\ GuiIdle /\ BgIdle

\* LogoPositioner: location_key is the stripped cell (place_logo_on_image, line
\* 225), keypoints what detect_human_keypoints returns for the photo.
ResolveLogoPositioner ==
  /\ rIn # None /\ rOut = None
  /\ rOut' = [impl |-> "LogoPositioner",
              pos  |-> LogoPositioner_get_logo_position(
                         detect_human_keypoints(rIn.pose, rIn.h, rIn.w), Strip(rIn.label))]
  /\ UNCHANGED <<rIn, orchVars, blendVars, sizeVars, assetVars, guiVars, bgVars>>

\* SimpleLogoPositioner: location_key is the stripped cell (line 152).
ResolveSimple ==
  /\ rIn # None /\ rOut = None
  /\ rOut' = [impl |-> "SimpleLogoPositioner",
              pos  |-> SimpleLogoPositioner_get_logo_position(Strip(rIn.label), rIn.h, rIn.w)]
  /\ UNCHANGED <<rIn, orchVars, blendVars, sizeVars, assetVars, guiVars, bgVars>>

ResolveCoordinateDetector ==
  /\ rIn # None /\ rOut = None
  /\ \E res \in calculate_optimal_placement(rIn.h, rIn.w, rIn.lh, rIn.lw, rIn.pose,
                                            rIn.decoration_location, rIn.label) :
       rOut' = [impl |-> "CoordinateDetector", pos |-> <<res.x, res.y>>]
  /\ UNCHANGED <<rIn, orchVars, blendVars, sizeVars, assetVars, guiVars, bgVars>>

ResolveNext == ResolveLogoPositioner \/ ResolveSimple \/ ResolveCoordinateDetector

SpecResolve == ResolveInit /\ [][ResolveNext]_vars

(***************************************************************************)
(* utils.is_back_location (src/src/utils.py)                               *)
(***************************************************************************)
back_keywords == {<<"B","A","C","K">>, <<"F","U","L","L","-","B","A","C","K">>}

is_back_location_CaseSensitive(location) ==
  \E keyword \in back_keywords : Contains(location, keyword)

is_back_location(location) ==
  \E keyword \in back_keywords : Contains(Lower(location), Lower(keyword))

(***************************************************************************)
(* process_all_images (src/src/main.py) driving                            *)
(* LogoPositioner.place_logo_on_image (src/src/logo_positioner.py)         *)
(***************************************************************************)
MaxJobs == 2     \* a batch holds 0..MaxJobs rows

FullBack   == <<"F","U","L","L","-","B","A","C","K">>
FullFront  == <<"F","U","L","L","-","F","R","O","N","T">>
LeftChest  == <<"L","E","F","T","-","C","H","E","S","T">>
FrontPrefix == <<"F","R","O","N","T","_">>
NameA      == <<"a",".","j","p","g">>
NameB      == <<"b",".","j","p","g">>

\* The rows a batch is drawn from: supplier is whether "Supplier Name" is
\* truthy, label is "Location As per Word file", name is "Final Image Name".
JobKinds ==
  { [supplier |-> TRUE,  label |-> FullBack,     name |-> NameA],
    [supplier |-> TRUE,  label |-> LeftChest,    name |-> NameB],
    [supplier |-> TRUE,  label |-> UnknownLabel, name |-> NameA],
    [supplier |-> FALSE, label |-> LeftChest,    name |-> NameB],
    [supplier |-> TRUE,  label |-> PaddedLabel,  name |-> FrontPrefix \o NameA] }

Batches == UNION {[1..n -> JobKinds] : n \in 0..MaxJobs}

\* os.path.join(settings["output_folder"], job_row["Final Image Name"])
output_folder == <<"o","u","t","/">>
OutputPath(name) == output_folder \o name

\* The messages of the exceptions raised.
ErrSupplier   == "Missing Supplier Name"
ErrImage      == "Image not found"
ErrLogoFile   == "Logo file not found"
ErrKeypoints  == "No keypoints found"
ErrPosition   == "Position not found"
ErrLogoLoad   == "Failed to load logo image"
ErrWrite      == "imwrite failed"
ErrExport     == "Export error"
ErrExcel      == "Failed to process Excel"

\* A log line; row is the index of the job being processed when it was written.
LogLine_NameLost(tag, row, name, error) ==
  [tag |-> tag, row |-> row, name |-> <<"U","n","k","n","o","w","n">>, error |-> error]

LogLine(tag, row, name, error) == [tag |-> tag, row |-> row, name |-> name, error |-> error]

\* Which handler catches an exception raised by place_logo_on_image: the try of
\* lines 41-46 around the derived front call, the try of lines 25-54 otherwise.
HandlerOf_NoInnerTry(kind) == "job"

\* A version with the primary call inside the inner try as well.
HandlerOf_InnerTryAroundPrimary(kind) == "front"

HandlerOf(kind) == IF kind = "front" THEN "front" ELSE "job"

\* Where process_all_images continues after the job handler (lines 51-54): the
\* handler is inside the for loop, so at the progress callback of line 56.
AfterJobHandler_LeavesLoop == "done"

AfterJobHandler == "progress"

\* Where process_all_images continues after the handler of lines 59-61: the
\* handler logs and does not re-raise, so the function falls off its end and
\* returns to the caller.
AfterExcelHandler_Reraises == "raised"

AfterExcelHandler == "done"

OrchInit ==
  /\ jobs = None /\ pc = "parse" /\ idx = 0 /\ run = None /\ interm = None
  /\ log = <<>> /\ started = <<>> /\ placed = <<>> /\ exported = <<>> /\ progress = <<>>

Init == OrchInit /\ ResIdle /\ BlendIdle /\ SizeIdle /\ AssetIdle /\ GuiIdle /\ BgIdle

\* Lines 19-22: parse_excel_file and the LogoPositioner constructor.  Either may
\* raise; the handler of lines 59-61 logs and the function returns.
ParseExcel ==
  /\ pc = "parse"
  /\ \/ \E batch \in Batches :
          /\ jobs' = batch /\ idx' = 1 /\ pc' = "loop"
          /\ UNCHANGED log
     \/ /\ log' = Append(log, LogLine("Failed to process Excel", 0, <<>>, ErrExcel))
        /\ pc' = AfterExcelHandler
        /\ UNCHANGED <<jobs, idx>>
  /\ UNCHANGED <<run, interm, started, placed, exported, progress,
                 resVars, blendVars, sizeVars, assetVars, guiVars, bgVars>>

\* Line 24, loop exhausted.
LoopEnd ==
  /\ pc = "loop" /\ idx > Len(jobs)
  /\ pc' = "done"
  /\ UNCHANGED <<jobs, idx, run, interm, log, started, placed, exported, progress,
                 resVars, blendVars, sizeVars, assetVars, guiVars, bgVars>>

\* Lines 24-32: the loop body is entered; a row without Supplier Name raises
\* ValueError, otherwise the primary place_logo_on_image call begins.
StartJob ==
  /\ pc = "loop" /\ idx <= Len(jobs)
  /\ started' = Append(started, idx)
  /\ interm' = None
  /\ IF ~jobs[idx].supplier
     THEN /\ log' = Append(log, LogLine("Failed Job", idx, jobs[idx].name, ErrSupplier))
          /\ pc' = AfterJobHandler
          /\ UNCHANGED run
     ELSE /\ run' = [kind |-> "primary", job |-> jobs[idx], stage |-> "resolve_assets",
                     features |-> "none", keypoints |-> None, position |-> None]
          /\ pc' = "place"
          /\ UNCHANGED log
  /\ UNCHANGED <<jobs, idx, placed, exported, progress, resVars, blendVars, sizeVars, assetVars, guiVars, bgVars>>

\* place_logo_on_image raises (lines 258-261 re-raise): the call is recorded and
\* the handler that catches it logs.  features is what the feature extractor
\* had returned by then ("none": not yet called).
PlaceRaises(msg, features) ==
  /\ placed' = Append(placed, [row |-> idx, kind |-> run.kind, label |-> run.job.label,
                               name |-> run.job.name, features |-> features,
                               result |-> None, error |-> msg])
  /\ run' = None
  /\ IF HandlerOf(run.kind) = "front"
     THEN /\ log' = Append(log, LogLine("Front image placement failed", idx, run.job.name, msg))
          /\ pc' = "export"
     ELSE /\ log' = Append(log, LogLine("Failed Job", idx, jobs[idx].name, msg))
          /\ pc' = AfterJobHandler
  /\ UNCHANGED <<jobs, idx, interm, started, exported, progress>>

\* A version in which front_job is the job itself, not a copy of it.
PlaceReturns_NoCopy ==
  /\ placed' = Append(placed, [row |-> idx, kind |-> run.kind, label |-> run.job.label,
                               name |-> run.job.name, features |-> run.features,
                               result |-> OutputPath(run.job.name), error |-> ""])
  /\ IF run.kind = "primary"
     THEN /\ interm' = OutputPath(run.job.name)
          /\ IF is_back_location(jobs[idx].label)
             THEN /\ jobs' = [jobs EXCEPT ![idx].label = FullFront,
                                          ![idx].name = FrontPrefix \o jobs[idx].name]
                  /\ run' = [kind |-> "front", job |-> jobs'[idx],
                             stage |-> "resolve_assets", features |-> "none",
                             keypoints |-> None, position |-> None]
                  /\ pc' = "place"
             ELSE /\ run' = None
                  /\ pc' = "export"
                  /\ UNCHANGED jobs
     ELSE /\ run' = None
          /\ pc' = "export"
          /\ UNCHANGED <<interm, jobs>>
  /\ UNCHANGED <<idx, log, started, exported, progress>>

\* place_logo_on_image returns output_path (line 257).  After the primary call
\* lines 37-42 start the derived front call when the label is a back location.
PlaceReturns ==
  /\ placed' = Append(placed, [row |-> idx, kind |-> run.kind, label |-> run.job.label,
                               name |-> run.job.name, features |-> run.features,
                               result |-> OutputPath(run.job.name), error |-> ""])
  /\ IF run.kind = "primary"
     THEN /\ interm' = OutputPath(run.job.name)
          /\ IF is_back_location(jobs[idx].label)
             THEN /\ run' = [kind |-> "front",
                             job |-> [jobs[idx] EXCEPT !.label = FullFront,
                                                       !.name = FrontPrefix \o jobs[idx].name],
                             stage |-> "resolve_assets", features |-> "none",
                             keypoints |-> None, position |-> None]
                  /\ pc' = "place"
             ELSE /\ run' = None
                  /\ pc' = "export"
     ELSE /\ run' = None
          /\ pc' = "export"
          /\ UNCHANGED interm
  /\ UNCHANGED <<jobs, idx, log, started, exported, progress>>

\* Lines 216-233 with the call of detect_human_keypoints (line 227) left out.
ResolveAssets_SkipsFeatures ==
  /\ pc = "place" /\ run.stage = "resolve_assets"
  /\ \E imageFound, logoFound \in BOOLEAN :
       IF ~imageFound THEN PlaceRaises(ErrImage, "none")
       ELSE IF ~logoFound THEN PlaceRaises(ErrLogoFile, "none")
       ELSE /\ run' = [run EXCEPT !.stage = "resolve_placement"]
            /\ UNCHANGED <<jobs, pc, idx, interm, log, started, placed, exported, progress>>
  /\ UNCHANGED <<resVars, blendVars, sizeVars, assetVars, guiVars, bgVars>>

\* Lines 216-224: find_image_file returns None (then line 222 raises) or a
\* path; find_logo_file raises FileNotFoundError or returns a path.
ResolveAssets ==
  /\ pc = "place" /\ run.stage = "resolve_assets"
  /\ \E imageFound, logoFound \in BOOLEAN :
       IF ~imageFound THEN PlaceRaises(ErrImage, "none")
       ELSE IF ~logoFound THEN PlaceRaises(ErrLogoFile, "none")
       ELSE /\ run' = [run EXCEPT !.stage = "extract_features"]
            /\ UNCHANGED <<jobs, pc, idx, interm, log, started, placed, exported, progress>>
  /\ UNCHANGED <<resVars, blendVars, sizeVars, assetVars, guiVars, bgVars>>

\* Lines 227-229: detect_human_keypoints returns None when the photo cannot be
\* read ("unreadable") or holds no pose ("no_pose"), else the landmarks; a
\* falsy result raises "No keypoints found".
ExtractFeatures ==
  /\ pc = "place" /\ run.stage = "extract_features"
  /\ \E outcome \in {"unreadable", "no_pose", "pose"} :
       LET keypoints == IF outcome = "pose"
                        THEN detect_human_keypoints(PoseInFrame, MaxImg, MaxImg)
                        ELSE None
       IN  IF keypoints = None
           THEN PlaceRaises(ErrKeypoints, outcome)
           ELSE /\ run' = [run EXCEPT !.stage = "resolve_placement",
                                      !.features = outcome, !.keypoints = keypoints]
                /\ UNCHANGED <<jobs, pc, idx, interm, log, started, placed, exported, progress>>
  /\ UNCHANGED <<resVars, blendVars, sizeVars, assetVars, guiVars, bgVars>>

\* Lines 225, 233-235: get_logo_position on the stripped label; None raises
\* "Position not found".
ResolvePlacement ==
  /\ pc = "place" /\ run.stage = "resolve_placement"
  /\ LET position == LogoPositioner_get_logo_position(run.keypoints, Strip(run.job.label))
     IN  IF position = None
         THEN PlaceRaises(ErrPosition, run.features)
         ELSE /\ run' = [run EXCEPT !.stage = "composite", !.position = position]
              /\ UNCHANGED <<jobs, pc, idx, interm, log, started, placed, exported, progress>>
  /\ UNCHANGED <<resVars, blendVars, sizeVars, assetVars, guiVars, bgVars>>

\* Lines 237-257.  The photo was read by detect_human_keypoints already, so
\* cv2.imread returns it again; remove_background, resize_logo and
\* merge_logo_on_image catch their own exceptions.  load_logo_image may return
\* None (line 248 raises), and os.makedirs / cv2.imwrite may raise.
Composite ==
  /\ pc = "place" /\ run.stage = "composite"
  /\ \E logoLoaded, written \in BOOLEAN :
       IF ~logoLoaded THEN PlaceRaises(ErrLogoLoad, run.features)
       ELSE IF ~written THEN PlaceRaises(ErrWrite, run.features)
       ELSE PlaceReturns
  /\ UNCHANGED <<resVars, blendVars, sizeVars, assetVars, guiVars, bgVars>>

\* Line 49: export_final_image(intermediate_image_path, job, settings); it
\* re-raises whatever fails inside (exporter.py lines 44-46).
Export ==
  /\ pc = "export"
  /\ \E ok \in BOOLEAN :
       /\ exported' = Append(exported, [row |-> idx, path |-> interm,
                                        name |-> jobs[idx].name, ok |-> ok])
       /\ IF ok
          THEN /\ pc' = "progress"
               /\ UNCHANGED log
          ELSE /\ log' = Append(log, LogLine("Failed Job", idx, jobs[idx].name, ErrExport))
               /\ pc' = AfterJobHandler
  /\ UNCHANGED <<jobs, idx, run, interm, started, placed, progress,
                 resVars, blendVars, sizeVars, assetVars, guiVars, bgVars>>

\* Lines 56-57 with idx * 100 // total, idx 0-based there.
Progress_ZeroBased ==
  /\ pc = "progress"
  /\ progress' = Append(progress, ((idx - 1) * 100) \div Len(jobs))
  /\ idx' = idx + 1
  /\ pc' = "loop"
  /\ UNCHANGED <<jobs, run, interm, log, started, placed, exported,
                 resVars, blendVars, sizeVars, assetVars, guiVars, bgVars>>

\* Lines 56-57: progress_callback((idx + 1) * 100 // total), idx 0-based there.
Progress ==
  /\ pc = "progress"
  /\ progress' = Append(progress, (idx * 100) \div Len(jobs))
  /\ idx' = idx + 1
  /\ pc' = "loop"
  /\ UNCHANGED <<jobs, run, interm, log, started, placed, exported,
                 resVars, blendVars, sizeVars, assetVars, guiVars, bgVars>>

Next ==
  \/ ParseExcel
  \/ LoopEnd
  \/ StartJob
  \/ ResolveAssets
  \/ ExtractFeatures
  \/ ResolvePlacement
  \/ Composite
  \/ Export
  \/ Progress

Spec == Init /\ [][Next]_vars

\* process_all_images runs on a thread of its own (interface.py line 40) and
\* every step of it is a call that returns or raises: a step that can be
\* taken is taken.
SpecLive == Init /\ [][Next]_vars /\ WF_vars(Next)

(***************************************************************************)
(* Compositor: resize_logo and merge_logo_on_image                         *)
(* (LogoPositioner, lines 113-203; SimpleLogoPositioner, lines 54-137, is  *)
(* the same code).                                                         *)
(* An image is [h, w, ch, px]: ch is the channel count (1 stands for a     *)
(* 2-dimensional grayscale array), px maps <<row, col>> (0-based) to the   *)
(* tuple of channel values.                                                *)
(***************************************************************************)
Image(h, w, ch, Px(_, _)) ==
  [h |-> h, w |-> w, ch |-> ch, px |-> [p \in (0..(h - 1)) \X (0..(w - 1)) |-> Px(p[1], p[2])]]

\* Length of a[k:] for k >= 0, and of a[:k] for any k (a negative k counts
\* from the end), for a of length n.
SliceFromLen(n, k) == Max(0, n - k)
SliceToLen(n, k)   == IF k < 0 THEN Max(0, n + k) ELSE Min(n, k)

\* Length of a[s:e] for 0 <= s <= e.
SliceLen(n, s, e) == Max(0, Min(e, n) - Min(s, n))

\* numpy broadcasting of two lengths; BroadcastError when they do not match.
BroadcastError == 0 - 1
Broadcast(a, b) ==
  IF a = b THEN a ELSE IF a = 1 THEN b ELSE IF b = 1 THEN a ELSE BroadcastError

\* Index into an axis of length n that is broadcast.
BIdx(i, n) == IF n = 1 THEN 0 ELSE i

White == 250     \* np.all(logo_bgr >= 250, axis=2)
Full  == 255

\* alpha of a decoration pixel, in 255ths: the 4th channel, or 0 for a pixel
\* whose channels are all >= 250 and 255 otherwise.
AlphaOf(logo, p) ==
  IF logo.ch = 4 THEN logo.px[p][4]
  ELSE IF \A k \in 1..3 : logo.px[p][k] >= White THEN 0 ELSE Full

\* (alpha * logo + (1 - alpha) * roi).astype(np.uint8), one channel.  For the
\* channel and alpha values of the model the float result, truncated, is this
\* integer quotient.
BlendChannel_Accumulate(a, l, r) == ((a * l + Full * r) \div Full) % 256

BlendChannel(a, l, r) == (a * l + (Full - a) * r) \div Full

\* The body of merge_logo_on_image, lines 154-198: what it leaves in base_image,
\* the array `blended`, and whether an exception reached line 200.
MergeCore(base, logo, position) ==
  LET lx0 == position[1]
      ly0 == position[2]
      lh0 == logo.h
      lw0 == logo.w
      bh  == base.h
      bw  == base.w
      \* lines 170-179: negative anchor
      ox  == IF lx0 < 0 THEN 0 - lx0 ELSE 0
      oy  == IF ly0 < 0 THEN 0 - ly0 ELSE 0
      lw1 == IF lx0 < 0 THEN SliceFromLen(lw0, ox) ELSE lw0
      lh1 == IF ly0 < 0 THEN SliceFromLen(lh0, oy) ELSE lh0
      lx  == IF lx0 < 0 THEN 0 ELSE lx0
      ly  == IF ly0 < 0 THEN 0 ELSE ly0
      \* lines 182-188: far edges
      lw2 == IF lx + lw1 > bw THEN SliceToLen(lw1, bw - lx) ELSE lw1
      lh2 == IF ly + lh1 > bh THEN SliceToLen(lh1, bh - ly) ELSE lh1
      \* line 191
      roi_h == SliceLen(bh, ly, ly + lh2)
      roi_w == SliceLen(bw, lx, lx + lw2)
      \* line 195
      H == Broadcast(lh2, roi_h)
      W == Broadcast(lw2, roi_w)
      \* line 197: the target slice
      th == IF H = BroadcastError THEN 0 ELSE SliceLen(bh, ly, ly + H)
      tw == IF W = BroadcastError THEN 0 ELSE SliceLen(bw, lx, lx + W)
      LogoAt(i, j) == <<BIdx(i, lh2) + oy, BIdx(j, lw2) + ox>>
      RoiAt(i, j)  == <<BIdx(i, roi_h) + ly, BIdx(j, roi_w) + lx>>
      BlendedPx(i, j) ==
        [k \in 1..3 |-> BlendChannel(AlphaOf(logo, LogoAt(i, j)),
                                     logo.px[LogoAt(i, j)][k],
                                     base.px[RoiAt(i, j)][k])]
  IN  IF logo.ch = 1                                  \* np.all(..., axis=2): AxisError
      THEN [base |-> base, blended |-> None, raised |-> TRUE]
      ELSE IF H = BroadcastError \/ W = BroadcastError   \* line 195: ValueError
      THEN [base |-> base, blended |-> None, raised |-> TRUE]
      ELSE IF Broadcast(H, th) # th \/ Broadcast(W, tw) # tw   \* line 197: ValueError
      THEN [base |-> base, blended |-> None, raised |-> TRUE]
      ELSE [base |-> [base EXCEPT !.px =
                        [p \in DOMAIN base.px |->
                           IF /\ ly <= p[1] /\ p[1] < ly + th
                              /\ lx <= p[2] /\ p[2] < lx + tw
                           THEN BlendedPx(BIdx(p[1] - ly, H), BIdx(p[2] - lx, W))
                           ELSE base.px[p]]],
            blended |-> Image(H, W, 3, BlendedPx), raised |-> FALSE]

\* A version that returns the blended region instead of base_image.
merge_logo_on_image_ReturnsBlended(base_image, logo_img, position) ==
  IF base_image = None \/ logo_img = None \/ position = None THEN base_image
  ELSE LET m == MergeCore(base_image, logo_img, position)
       IN  IF m.raised THEN base_image ELSE m.blended

\* A version that leaves a negative anchor in the slice bounds, where numpy
\* counts it from the far edge.
merge_logo_on_image_WrapsAnchor(base_image, logo_img, position) ==
  IF base_image = None \/ logo_img = None \/ position = None THEN base_image
  ELSE MergeCore(base_image, logo_img,
                 <<IF position[1] < 0 THEN position[1] + base_image.w ELSE position[1],
                   IF position[2] < 0 THEN position[2] + base_image.h ELSE position[2]>>).base

\* A version that moves a negative anchor to 0 without cropping the decoration.
merge_logo_on_image_ClampsAnchor(base_image, logo_img, position) ==
  IF base_image = None \/ logo_img = None \/ position = None THEN base_image
  ELSE MergeCore(base_image, logo_img,
                 <<Max(0, position[1]), Max(0, position[2])>>).base

\* merge_logo_on_image: base_image is returned on every path (lines 152, 198,
\* 203), written in place on the path through line 197.
\* A version that assigns the blended rows one at a time and stops after the
\* first.
merge_logo_on_image_FirstRowOnly(base_image, logo_img, position) ==
  IF base_image = None \/ logo_img = None \/ position = None THEN base_image
  ELSE [base_image EXCEPT !.px =
          [p \in DOMAIN base_image.px |->
             IF p[1] = Max(0, position[2])
             THEN MergeCore(base_image, logo_img, position).base.px[p]
             ELSE base_image.px[p]]]

merge_logo_on_image(base_image, logo_img, position) ==
  IF base_image = None \/ logo_img = None \/ position = None THEN base_image
  ELSE MergeCore(base_image, logo_img, position).base

\* resize_logo, lines 117-122: dim = (int(target_width), max(1, int(h *
\* scale_ratio))) with scale_ratio = target_width / float(w).  For sides up to
\* 10 the float product, truncated, is the integer quotient h * W div w (the
\* expression was evaluated for all of them); for larger sides it can fall one
\* below an exact quotient (h = 11, w = 11, W = 15 gives 14).
\* A version that rounds the height to the nearest integer.
ResizeDim_Rounds(h, w, target_width) ==
  <<target_width, Max(1, (2 * h * target_width + w) \div (2 * w))>>

ResizeDim_KeepsHeight(h, w, target_width) == <<target_width, Max(1, h)>>

ResizeDim(h, w, target_width) == <<target_width, Max(1, (h * target_width) \div w)>>

\* resize_logo on a decoration of h x w: the shape of what it returns.
\* cv2.resize raises on an empty source and on an empty dsize; the handler
\* (lines 123-126) then returns logo_img itself.
resize_logo(h, w, target_width) ==
  IF w = 0 THEN [h |-> h, w |-> w, resized |-> FALSE]
  ELSE LET dim == ResizeDim(h, w, target_width)
       IN  IF h = 0 \/ dim[1] <= 0
           THEN [h |-> h, w |-> w, resized |-> FALSE]
           ELSE [h |-> dim[2], w |-> dim[1], resized |-> TRUE]

MaxSide   == 6     \* decoration sides range over 0..MaxSide
MaxTarget == 6     \* target widths range over 0..MaxTarget

ResizeInit ==
  /\ zIn \in [h : 0..MaxSide, w : 0..MaxSide, target_width : 0..MaxTarget]
  /\ zOut = None
  /\ OrchIdle /\ ResIdle /\ BlendIdle /\ AssetIdle /\ GuiIdle /\ BgIdle

ResizeLogo ==
  /\ zIn # None /\ zOut = None
  /\ zOut' = resize_logo(zIn.h, zIn.w, zIn.target_width)
  /\ UNCHANGED <<zIn, orchVars, resVars, blendVars, assetVars, guiVars, bgVars>>

ResizeNext == ResizeLogo

SpecResize == ResizeInit /\ [][ResizeNext]_vars

\* ---- inputs of merge_logo_on_image ----
MaxBase   == 2     \* photo sides range over 1..MaxBase
MaxDeco   == 3     \* decoration sides range over 0..MaxDeco
MaxAnchor == 4     \* anchor coordinates range over -MaxAnchor..MaxAnchor

BasePatterns == {"dark", "mixed"}
BasePx(pattern, r, c) ==
  IF pattern = "dark" THEN <<10, 10, 10>>
  ELSE IF (r + c) % 2 = 0 THEN <<0, 200, 249>> ELSE <<255, 255, 255>>

DecoKinds == {"bgra_opaque", "bgra_translucent", "bgr_dark", "bgr_white", "gray"}
DecoChannels(kind) ==
  IF kind \in {"bgra_opaque", "bgra_translucent"} THEN 4
  ELSE IF kind = "gray" THEN 1 ELSE 3
DecoPx(kind, r, c) ==
  CASE kind = "bgra_opaque"      -> <<200, 10 + r, 250 + c, 255>>
    [] kind = "bgra_translucent" -> <<200, 10, 0, IF (r + c) % 2 = 0 THEN 128 ELSE 0>>
    [] kind = "bgr_dark"         -> <<250, 250, 249 - r>>
    [] kind = "bgr_white"        -> IF (r + c) % 2 = 0 THEN <<255, 250, 252>> ELSE <<10, 200, 0>>
    [] kind = "gray"             -> <<200>>

BaseImages ==
  {Image(h, w, 3, LAMBDA r, c : BasePx(pat, r, c)) :
     h \in 1..MaxBase, w \in 1..MaxBase, pat \in BasePatterns}
DecoImages ==
  {Image(h, w, DecoChannels(kind), LAMBDA r, c : DecoPx(kind, r, c)) :
     h \in 0..MaxDeco, w \in 0..MaxDeco, kind \in DecoKinds}
Anchors == ((0 - MaxAnchor)..MaxAnchor) \X ((0 - MaxAnchor)..MaxAnchor)

BlendInit ==
  /\ bIn \in [base : BaseImages, logo : DecoImages, position : Anchors \cup {None}]
  /\ bOut = <<>>
  /\ OrchIdle /\ ResIdle /\ SizeIdle /\ AssetIdle /\ GuiIdle /\ BgIdle

\* merge_logo_on_image(base, logo, position)
Merge ==
  /\ bIn # None /\ bOut = <<>>
  /\ bOut' = <<merge_logo_on_image(bIn.base, bIn.logo, bIn.position)>>
  /\ UNCHANGED <<bIn, orchVars, resVars, sizeVars, assetVars, guiVars, bgVars>>

\* The same decoration merged again, at the same anchor, onto the result.
MergeAgain ==
  /\ Len(bOut) = 1
  /\ bOut' = Append(bOut, merge_logo_on_image(bOut[1], bIn.logo, bIn.position))
  /\ UNCHANGED <<bIn, orchVars, resVars, sizeVars, assetVars, guiVars, bgVars>>

BlendNext == Merge \/ MergeAgain

SpecBlend == BlendInit /\ [][BlendNext]_vars

(***************************************************************************)
(* Claims about process_all_images, checked under Spec                     *)
(***************************************************************************)
FrontRuns(r) == {i \in DOMAIN placed : placed[i].row = r /\ placed[i].kind = "front"}

PrimaryOk(r) ==
  \E i \in DOMAIN placed :
    placed[i].row = r /\ placed[i].kind = "primary" /\ placed[i].result # None

\* Job r is past its placement calls.
PlacementOver(r) == idx > r \/ (idx = r /\ pc \in {"export", "progress"})

\* C1: whichever jobs raise (in the primary placement, in the derived front
\* run or in export), the jobs are started one by one in index order, each
\* once; every exception is logged with the row it came from; and when the
\* function is done every job of the batch has been started.
C1_EveryJobAttempted ==
  /\ started = [i \in 1..Len(started) |-> i]
  /\ pc = "loop" => Len(started) = idx - 1
  /\ pc \in {"place", "export", "progress"} => Len(started) = idx
  /\ (pc = "done" /\ jobs # None) => Len(started) = Len(jobs)
  /\ \A i \in DOMAIN placed :
       placed[i].result = None =>
         \E k \in DOMAIN log : log[k].row = placed[i].row /\ log[k].error = placed[i].error
  /\ \A e \in DOMAIN exported :
       ~exported[e].ok =>
         \E k \in DOMAIN log : log[k].row = exported[e].row /\ log[k].error = ErrExport

\* A finished batch of two jobs whose first job failed and whose second was
\* still started.
C1_Witness ==
  /\ pc = "done" /\ jobs # None /\ Len(jobs) = 2 /\ started = <<1, 2>>
  /\ \E k \in DOMAIN log : log[k].tag = "Failed Job" /\ log[k].row = 1

\* C2: a placement call in which the feature extractor read the photo and
\* found no landmarks does not raise: it returns an output path.
C2_NoLandmarksNotFatal ==
  \A i \in DOMAIN placed : placed[i].features = "no_pose" => placed[i].result # None

\* C4: when the derived front placement of job r raises, the failure is logged
\* as a front failure, the only "Failed Job" line job r can get is the one of
\* its own export, and export is called with the primary composite's path.
C4_FrontFailureSwallowed ==
  \A i \in DOMAIN placed :
    (placed[i].kind = "front" /\ placed[i].result = None) =>
      LET r == placed[i].row
      IN  /\ \E k \in DOMAIN log :
                /\ log[k].tag = "Front image placement failed"
                /\ log[k].row = r /\ log[k].error = placed[i].error
          /\ \A k \in DOMAIN log :
                (log[k].tag = "Failed Job" /\ log[k].row = r) => log[k].error = ErrExport
          /\ (idx = r /\ pc = "export") => interm = OutputPath(jobs[r].name)
          /\ (idx > r \/ pc = "progress") =>
                \E e \in DOMAIN exported :
                  exported[e].row = r /\ exported[e].path = OutputPath(jobs[r].name)

\* A job whose front placement raised and whose export then succeeded.
C4_Witness ==
  \E i \in DOMAIN placed :
    /\ placed[i].kind = "front" /\ placed[i].result = None
    /\ \E e \in DOMAIN exported :
         /\ exported[e].row = placed[i].row /\ exported[e].ok
         /\ exported[e].path = OutputPath(jobs[placed[i].row].name)
    /\ \A k \in DOMAIN log : log[k].row = placed[i].row => log[k].tag # "Failed Job"

\* The labels of JobKinds that name a back zone.
BackLabelsOfJobs == {FullBack, PaddedLabel}

\* C5: a front run is always the call right after the successful primary call of
\* the same job, with label FULL-FRONT and name "FRONT_" + the job's name; a
\* job has at most one; once a job's placement is over and its primary call
\* succeeded it has exactly one if its label names a back zone and none
\* otherwise.
C5_OneFrontRunForBack ==
  \A r \in 1..Len(started) :
    /\ \A i \in FrontRuns(r) :
         /\ placed[i].label = FullFront
         /\ placed[i].name = FrontPrefix \o jobs[r].name
         /\ i > 1 /\ placed[i - 1].row = r
         /\ placed[i - 1].kind = "primary" /\ placed[i - 1].result # None
    /\ Cardinality(FrontRuns(r)) <= 1
    /\ ~PrimaryOk(r) => FrontRuns(r) = {}
    /\ (PlacementOver(r) /\ PrimaryOk(r)) =>
         Cardinality(FrontRuns(r)) = IF jobs[r].label \in BackLabelsOfJobs THEN 1 ELSE 0

\* A job labelled " full-back " that is past placement with its one front run,
\* after a job labelled LEFT-CHEST that got none.
C5_Witness ==
  \E r \in 1..Len(started) :
    /\ PlacementOver(r) /\ jobs[r].label = PaddedLabel /\ Cardinality(FrontRuns(r)) = 1
    /\ \E q \in 1..Len(started) :
         q < r /\ jobs[q].label = LeftChest /\ PrimaryOk(q) /\ FrontRuns(q) = {}

(***************************************************************************)
(* Claims about the location resolvers, checked under SpecResolve          *)
(***************************************************************************)
ClaimedResolvers == {"LogoPositioner", "SimpleLogoPositioner"}

\* C3: get_logo_position returns an (x, y) pair for every label, with the
\* keypoints absent or complete, and every photo size.
C3_ResolverTotal ==
  (rOut # None /\ rOut.impl \in ClaimedResolvers) => rOut.pos # None

InPhoto(pos, h, w) ==
  /\ pos # None
  /\ 0 <= pos[1] /\ pos[1] < w
  /\ 0 <= pos[2] /\ pos[2] < h

\* C6: for a vocabulary label and no keypoints, every resolver returns a
\* coordinate inside the photo.
C6_HeuristicInsidePhoto ==
  (rOut # None /\ rIn.label \in Vocabulary /\ rIn.pose = None) =>
    InPhoto(rOut.pos, rIn.h, rIn.w)

\* C7: the label UNKNOWN-ZONE-XYZ resolves to (w div 2, h div 3), with or
\* without keypoints.
C7_UnknownLabelDefault ==
  (rOut # None /\ rOut.impl \in ClaimedResolvers /\ rIn.label = UnknownLabel) =>
    rOut.pos = <<rIn.w \div 2, rIn.h \div 3>>

(***************************************************************************)
(* Claims about merge_logo_on_image, checked under SpecBlend               *)
(***************************************************************************)
\* C8: whatever the anchor (negative, or at or beyond the far edges), the
\* decoration size and the base size, merge_logo_on_image returns an image of
\* the base's height and width.
C8_BlendKeepsSize ==
  \A i \in DOMAIN bOut :
    /\ bOut[i].h = bIn.base.h /\ bOut[i].w = bIn.base.w
    /\ DOMAIN bOut[i].px = DOMAIN bIn.base.px

\* A decoration wider than the base, at a negative x, that changed a pixel.
C8_Witness ==
  /\ Len(bOut) >= 1 /\ bIn.position # None
  /\ bIn.position[1] < 0 /\ bIn.logo.w > bIn.base.w
  /\ bOut[1] # bIn.base

Opaque(logo) ==
  /\ logo.ch \in {3, 4}
  /\ \A p \in DOMAIN logo.px : AlphaOf(logo, p) = Full

\* C9: for a decoration whose alpha is 1 at every pixel, merging it a second
\* time at the same anchor leaves every pixel as the first merge left it.
C9_OpaqueBlendIdempotent ==
  (Len(bOut) = 2 /\ Opaque(bIn.logo)) => bOut[2] = bOut[1]

\* An opaque decoration merged twice, the first merge having changed the base.
C9_Witness ==
  /\ Len(bOut) = 2 /\ Opaque(bIn.logo) /\ bIn.logo.h > 0 /\ bIn.logo.w > 0
  /\ bOut[1] # bIn.base

(***************************************************************************)
(* Claims about resize_logo, checked under SpecResize                      *)
(***************************************************************************)
\* C10: for a decoration of width w > 0 and height h > 0 and a target width
\* W > 0, resize_logo returns width W and a height within 1 of W * h / w
\* (stated without division: |height * w - W * h| <= w).
C10_ResizeWidthAndRatio ==
  (zOut # None /\ zIn.w > 0 /\ zIn.h > 0 /\ zIn.target_width > 0) =>
    /\ zOut.w = zIn.target_width
    /\ zOut.h * zIn.w - zIn.target_width * zIn.h <= zIn.w
    /\ zIn.target_width * zIn.h - zOut.h * zIn.w <= zIn.w

\* A resize to another width whose exact height W * h / w is no integer.
C10_Witness ==
  /\ zOut # None /\ zOut.resized
  /\ zIn.w > 1 /\ zIn.h > 1 /\ zIn.target_width > 0
  /\ (zIn.h * zIn.target_width) % zIn.w # 0
  /\ zOut.h # zIn.h /\ zOut.w # zIn.w

(***************************************************************************)
(* Product photo lookup: ImageFinder (src/src/image_finder.py),            *)
(* LogoPositioner.find_image_file, SimpleLogoPositioner.find_image_file.   *)
(* A directory is the sequence of its file names in listing order (the     *)
(* order of os.listdir, which glob and os.walk follow); names are compared *)
(* as on a case-sensitive file system.                                     *)
(***************************************************************************)
SUPPORTED_EXTENSIONS ==
  << <<".","p","n","g">>, <<".","j","p","g">>, <<".","j","p","e","g">>, <<".","b","m","p">>, <<".","t","i","f","f">>, <<".","t","i","f">> >>

\* The separators of image_variations, in the reverse of the listed order.
image_variations_Reversed(supplier_part_id, supplier_color) ==
  << supplier_part_id \o <<" ">> \o supplier_color,
     supplier_part_id \o <<"-">> \o supplier_color,
     supplier_part_id \o <<"_">> \o supplier_color,
     supplier_part_id \o supplier_color >>

image_variations(supplier_part_id, supplier_color) ==
  << supplier_part_id \o supplier_color,
     supplier_part_id \o <<"_">> \o supplier_color,
     supplier_part_id \o <<"-">> \o supplier_color,
     supplier_part_id \o <<" ">> \o supplier_color >>

\* os.path.exists(os.path.join(folder, name))
PathExists(files, name) == \E i \in DOMAIN files : files[i] = name

\* str.endswith, and glob's "*" + ext
EndsWith(s, suffix) ==
  Len(s) >= Len(suffix) /\ SubSeq(s, Len(s) - Len(suffix) + 1, Len(s)) = suffix

\* Lines 87-90: one glob per extension, results appended in that order.
RECURSIVE GlobAll(_, _)
GlobAll(files, e) ==
  IF e > Len(SUPPORTED_EXTENSIONS) THEN <<>>
  ELSE LET ext == SUPPORTED_EXTENSIONS[e]
           Matches(f) == EndsWith(f, ext)
       IN  SelectSeq(files, Matches) \o GlobAll(files, e + 1)

\* Lines 98-111.
FuzzyScore(filename, part_id, color) ==
  LET filename_lower == Lower(filename)
  IN  (IF Contains(filename_lower, Lower(part_id)) THEN 2 ELSE 0)
    + (IF Contains(filename_lower, Lower(color)) THEN 2 ELSE 0)
    + (IF Contains(filename_lower, Lower(part_id) \o Lower(color)) THEN 3 ELSE 0)

\* Lines 85-127.  list.sort is stable, also with reverse=True, so the first
\* of the highest scoring entries is returned.
fuzzy_search(files, part_id, color) ==
  LET all_images == GlobAll(files, 1)
      Scored(f) == FuzzyScore(f, part_id, color) > 0
      scored_images == SelectSeq(all_images, Scored)
  IN  IF scored_images = <<>> THEN None
      ELSE LET best == CHOOSE i \in DOMAIN scored_images :
                         /\ \A j \in DOMAIN scored_images :
                              FuzzyScore(scored_images[j], part_id, color)
                                <= FuzzyScore(scored_images[i], part_id, color)
                         /\ \A j \in 1..(i - 1) :
                              FuzzyScore(scored_images[j], part_id, color)
                                < FuzzyScore(scored_images[i], part_id, color)
           IN  scored_images[best]

\* Lines 33-71.  folder is whether the supplier folder exists; the result is
\* the file returned (None: not found) and whether _fuzzy_search was called.
find_image(folder, files, supplier_part_id, supplier_color) ==
  IF ~folder THEN [path |-> None, fuzzy |-> FALSE]
  ELSE
    LET variations == image_variations(supplier_part_id, supplier_color)
        nExt == Len(SUPPORTED_EXTENSIONS)
        Candidate(k) == variations[((k - 1) \div nExt) + 1]
                          \o SUPPORTED_EXTENSIONS[((k - 1) % nExt) + 1]
        hits == {k \in 1..(Len(variations) * nExt) : PathExists(files, Candidate(k))}
    IN  IF hits # {}
        THEN [path |-> Candidate(CHOOSE k \in hits : \A m \in hits : k <= m),
              fuzzy |-> FALSE]
        ELSE [path |-> fuzzy_search(files, supplier_part_id, supplier_color),
              fuzzy |-> TRUE]

\* str.replace(old, new) for one-character strings
ReplaceChar(s, old, new) == [i \in 1..Len(s) |-> IF s[i] = old THEN new ELSE s[i]]

\* [t for t in s.split(" ") if t]
RECURSIVE SplitWords(_, _)
SplitWords(s, word) ==
  IF s = <<>> THEN (IF word = <<>> THEN <<>> ELSE <<word>>)
  ELSE IF Head(s) = " "
       THEN (IF word = <<>> THEN <<>> ELSE <<word>>) \o SplitWords(Tail(s), <<>>)
       ELSE SplitWords(Tail(s), Append(word, Head(s)))

\* file.lower().endswith((".jpg", ".jpeg", ".png"))
PhotoExtensions == { <<".","j","p","g">>, <<".","j","p","e","g">>, <<".","p","n","g">> }
IsPhotoFile(file) == \E ext \in PhotoExtensions : EndsWith(Lower(file), ext)

\* The image name place_logo_on_image looks for (line 217 of both positioners):
\* f"{part} {color}".strip()
ImageName(part_id, color) == Strip(part_id \o <<" ">> \o color)

\* SimpleLogoPositioner.find_image_file, lines 221-243, on the files from
\* position i on.
RECURSIVE SimpleFindLoop(_, _, _, _, _)
SimpleFindLoop(files, i, tokens_lower, best_match, best_score) ==
  IF i > Len(files) THEN best_match
  ELSE IF ~IsPhotoFile(files[i])
       THEN SimpleFindLoop(files, i + 1, tokens_lower, best_match, best_score)
       ELSE
         LET fname == ReplaceChar(ReplaceChar(Lower(files[i]), "_", " "), "-", " ")
             score == Cardinality({k \in DOMAIN tokens_lower : Contains(fname, tokens_lower[k])})
             better == score > best_score \/ (score = best_score /\ best_match = None)
             match == IF better THEN files[i] ELSE best_match
             top   == IF better THEN score ELSE best_score
         IN  IF top >= Max(1, Len(tokens_lower)) THEN match
             ELSE SimpleFindLoop(files, i + 1, tokens_lower, match, top)

SimpleLogoPositioner_find_image_file(folder, files, supplier_part_and_color) ==
  IF ~folder THEN None
  ELSE LET tokens == SplitWords(ReplaceChar(ReplaceChar(supplier_part_and_color,
                                                        "_", " "), "-", " "), <<>>)
       IN  SimpleFindLoop(files, 1, [k \in DOMAIN tokens |-> Lower(tokens[k])], None, 0 - 1)

\* LogoPositioner.find_image_file, lines 285-292: the first photo file whose
\* name contains the image name.
LogoPositioner_find_image_file(folder, files, supplier_part_id) ==
  IF ~folder THEN None
  ELSE LET hits == {i \in DOMAIN files :
                      Contains(files[i], supplier_part_id) /\ IsPhotoFile(files[i])}
       IN  IF hits = {} THEN None
           ELSE files[CHOOSE i \in hits : \A j \in hits : i <= j]

\* ---- inputs of the lookups ----
MaxFiles == 3    \* a directory lists 0..MaxFiles files

PartId   == <<"A","B","C","1","2","3">>
Color    == <<"R","e","d">>

\* File names: the ladder names of (PartId, Color), names the fuzzy search
\* scores 7, 4, 4, 2 and 0, a name with one token and an extension only
\* ImageFinder supports, and a file that is no image.
FileNames ==
  { <<"A","B","C","1","2","3","R","e","d",".","p","n","g">>,
    <<"A","B","C","1","2","3","R","e","d",".","j","p","g">>,
    <<"A","B","C","1","2","3","_","R","e","d",".","p","n","g">>,
    <<"A","B","C","1","2","3","-","R","e","d",".","b","m","p">>,
    <<"A","B","C","1","2","3"," ","R","e","d",".","t","i","f">>,
    <<"A","B","C","1","2","3","_","R","e","d","_","v","2",".","p","n","g">>,
    <<"x","A","B","C","1","2","3","R","e","d",".","p","n","g">>,
    <<"R","e","d","_","A","B","C","1","2","3",".","p","n","g">>,
    <<"a","b","c","1","2","3",".","j","p","g">>,
    <<"o","t","h","e","r",".","p","n","g">>,
    <<"r","e","d",".","b","m","p">>,
    <<"n","o","t","e","s",".","t","x","t">> }

Directories ==
  {d \in UNION {[1..n -> FileNames] : n \in 0..MaxFiles} :
     \A i, j \in DOMAIN d : i # j => d[i] # d[j]}

\* The request as written in the sheet, and in lower case.
Requests ==
  { [part |-> PartId, color |-> Color],
    [part |-> Lower(PartId), color |-> Lower(Color)] }

AssetInit ==
  /\ \E folder \in BOOLEAN, d \in Directories, q \in Requests :
       /\ folder \/ d = <<>>
       /\ aIn = [folder |-> folder, files |-> d, part |-> q.part, color |-> q.color]
  /\ aOut = None
  /\ OrchIdle /\ ResIdle /\ BlendIdle /\ SizeIdle /\ GuiIdle /\ BgIdle

\* ImageFinder.find_image
FindImage ==
  /\ aOut = None
  /\ LET r == find_image(aIn.folder, aIn.files, aIn.part, aIn.color)
     IN  aOut' = [impl |-> "ImageFinder", path |-> r.path, fuzzy |-> r.fuzzy]
  /\ UNCHANGED <<aIn, orchVars, resVars, blendVars, sizeVars, guiVars, bgVars>>

\* SimpleLogoPositioner.find_image_file as place_logo_on_image calls it; the
\* scored search is its only search.
FindImageFileSimple ==
  /\ aOut = None
  /\ aOut' = [impl |-> "SimpleLogoPositioner",
              path |-> SimpleLogoPositioner_find_image_file(
                         aIn.folder, aIn.files, ImageName(aIn.part, aIn.color)),
              fuzzy |-> TRUE]
  /\ UNCHANGED <<aIn, orchVars, resVars, blendVars, sizeVars, guiVars, bgVars>>

\* LogoPositioner.find_image_file as place_logo_on_image calls it.
FindImageFile ==
  /\ aOut = None
  /\ aOut' = [impl |-> "LogoPositioner",
              path |-> LogoPositioner_find_image_file(
                         aIn.folder, aIn.files, ImageName(aIn.part, aIn.color)),
              fuzzy |-> FALSE]
  /\ UNCHANGED <<aIn, orchVars, resVars, blendVars, sizeVars, guiVars, bgVars>>

AssetNext == FindImage \/ FindImageFileSimple \/ FindImageFile

SpecAssets == AssetInit /\ [][AssetNext]_vars

(***************************************************************************)
(* Claims about the product photo lookup, checked under SpecAssets         *)
(***************************************************************************)
LadderSeparators == << <<>>, <<"_">>, <<"-">>, <<" ">> >>
LadderExtensions == << <<".","p","n","g">>, <<".","j","p","g">>, <<".","j","p","e","g">>, <<".","b","m","p">>, <<".","t","i","f","f">>, <<".","t","i","f">> >>
LadderRungs == (DOMAIN LadderSeparators) \X (DOMAIN LadderExtensions)
LadderName(rung) ==
  aIn.part \o LadderSeparators[rung[1]] \o aIn.color \o LadderExtensions[rung[2]]
RungPresent(rung) == \E i \in DOMAIN aIn.files : aIn.files[i] = LadderName(rung)
RungBefore(a, b) == a[1] < b[1] \/ (a[1] = b[1] /\ a[2] < b[2])

\* C11: when the directory holds a file named part + separator + color +
\* extension, find_image returns the present file that comes first with the
\* separators taken in the order '', '_', '-', ' ' and, within a separator, the
\* extensions in their listed order; _fuzzy_search is not called.
C11_ExactLadderFirstHit ==
  (aOut # None /\ aOut.impl = "ImageFinder" /\ aIn.folder
     /\ \E rung \in LadderRungs : RungPresent(rung)) =>
    /\ ~aOut.fuzzy
    /\ \E rung \in LadderRungs :
         /\ RungPresent(rung) /\ aOut.path = LadderName(rung)
         /\ \A other \in LadderRungs : RungPresent(other) => ~RungBefore(other, rung)

\* find_image returned ABC123Red.jpg from a directory that lists
\* ABC123_Red.png before it.
C11_Witness ==
  /\ aOut # None /\ aOut.impl = "ImageFinder" /\ Len(aIn.files) >= 2
  /\ aIn.files[1] = LadderName(<<2, 1>>) /\ aIn.files[2] = LadderName(<<1, 2>>)
  /\ aOut.path = LadderName(<<1, 2>>) /\ ~aOut.fuzzy

\* The score the fuzzy fallback is specified to give a file name.
SpecifiedScore(name) ==
  (IF Contains(Lower(name), Lower(aIn.part)) THEN 2 ELSE 0)
  + (IF Contains(Lower(name), Lower(aIn.color)) THEN 2 ELSE 0)
  + (IF Contains(Lower(name), Lower(aIn.part) \o Lower(aIn.color)) THEN 3 ELSE 0)

\* The files a lookup considers, in the order it sees them.
SeenBy(impl) ==
  IF impl = "ImageFinder"
  THEN LET Has(e) == LET M(f) == EndsWith(f, LadderExtensions[e]) IN SelectSeq(aIn.files, M)
       IN  Has(1) \o Has(2) \o Has(3) \o Has(4) \o Has(5) \o Has(6)
  ELSE LET M(f) == \E e \in 1..3 : EndsWith(Lower(f), LadderExtensions[e])
       IN  SelectSeq(aIn.files, M)

FuzzyReturnsBest(impl) ==
  (/\ aOut # None /\ aOut.impl = impl /\ aIn.folder
   /\ ~(\E rung \in LadderRungs : RungPresent(rung))
   /\ \E i \in DOMAIN SeenBy(impl) : SpecifiedScore(SeenBy(impl)[i]) > 0) =>
    \E i \in DOMAIN SeenBy(impl) :
      /\ aOut.path = SeenBy(impl)[i]
      /\ \A j \in DOMAIN SeenBy(impl) :
           SpecifiedScore(SeenBy(impl)[j]) <= SpecifiedScore(SeenBy(impl)[i])
      /\ \A j \in 1..(i - 1) :
           SpecifiedScore(SeenBy(impl)[j]) < SpecifiedScore(SeenBy(impl)[i])

\* C12: with no ladder file in the directory, the fuzzy fallback returns a
\* file whose score (+2 per token contained, +3 for the tokens concatenated) is
\* maximal, the first seen of those; a file holding one token is eligible.
\* Stated of ImageFinder._fuzzy_search and SimpleLogoPositioner.find_image_file.
C12_FuzzyReturnsBestScore ==
  FuzzyReturnsBest("ImageFinder") /\ FuzzyReturnsBest("SimpleLogoPositioner")

\* C13: a lookup returns no path only when the directory is absent or lists no
\* file of a supported type.
C13_NotFoundOnlyWithoutCandidates ==
  (aOut # None /\ aIn.folder /\ SeenBy(aOut.impl) # <<>>) => aOut.path # None

(***************************************************************************)
(* The anchor handed to merge_logo_on_image, checked under SpecResolve     *)
(***************************************************************************)
\* The part of base_image that merge_logo_on_image writes (lines 170-197) for
\* a base of bh x bw, a decoration of lh0 x lw0 and an anchor: its height and
\* width, both 0 when the blend or the write-back raises.
MergeRegion(bh, bw, lh0, lw0, position) ==
  LET lx0 == position[1]
      ly0 == position[2]
      lw1 == IF lx0 < 0 THEN SliceFromLen(lw0, 0 - lx0) ELSE lw0
      lh1 == IF ly0 < 0 THEN SliceFromLen(lh0, 0 - ly0) ELSE lh0
      lx  == IF lx0 < 0 THEN 0 ELSE lx0
      ly  == IF ly0 < 0 THEN 0 ELSE ly0
      lw2 == IF lx + lw1 > bw THEN SliceToLen(lw1, bw - lx) ELSE lw1
      lh2 == IF ly + lh1 > bh THEN SliceToLen(lh1, bh - ly) ELSE lh1
      H == Broadcast(lh2, SliceLen(bh, ly, ly + lh2))
      W == Broadcast(lw2, SliceLen(bw, lx, lx + lw2))
      th == IF H = BroadcastError THEN 0 ELSE SliceLen(bh, ly, ly + H)
      tw == IF W = BroadcastError THEN 0 ELSE SliceLen(bw, lx, lx + W)
  IN  IF H = BroadcastError \/ W = BroadcastError
         \/ Broadcast(H, th) # th \/ Broadcast(W, tw) # tw
      THEN [h |-> 0, w |-> 0]
      ELSE [h |-> th, w |-> tw]

\* C14: whenever a resolver yields an anchor (the job reaches the composite
\* stage) and the decoration is at least 1 x 1, merge_logo_on_image writes at
\* least one pixel of the photo.
C14_AnchorOverlapsPhoto ==
  (rOut # None /\ rOut.pos # None /\ rIn.lh >= 1 /\ rIn.lw >= 1) =>
    LET region == MergeRegion(rIn.h, rIn.w, rIn.lh, rIn.lw, rOut.pos)
    IN  region.h >= 1 /\ region.w >= 1

\* |a|
Abs(a) == IF a < 0 THEN 0 - a ELSE a

\* C15: with a complete landmark set, LogoPositioner resolves LEFT-CHEST to the
\* midpoint of the two shoulder keypoints moved by -0.18 x span horizontally
\* and +0.22 x span vertically, to within one pixel (span: the horizontal
\* distance of the shoulders; everything times 100 to stay in the integers).
C15_LeftChestFromShoulders ==
  (rOut # None /\ rOut.impl = "LogoPositioner" /\ rIn.pose # None
     /\ Upper(Strip(rIn.label)) = LeftChest) =>
    LET keypoints == detect_human_keypoints(rIn.pose, rIn.h, rIn.w)
        l == keypoints[LEFT_SHOULDER]
        r == keypoints[RIGHT_SHOULDER]
        span == Abs(r[1] - l[1])
    IN  /\ rOut.pos # None
        /\ Abs(100 * rOut.pos[1] - (50 * (l[1] + r[1]) - 18 * span)) <= 100
        /\ Abs(100 * rOut.pos[2] - (50 * (l[2] + r[2]) + 22 * span)) <= 100

(***************************************************************************)
(* Claims about process_all_images, checked under SpecLive and Spec        *)
(***************************************************************************)
\* Steps process_all_images can still take; 12 bounds the steps of one job
\* (entering the loop body, four stages for each of two placement calls, the
\* export, the progress callback).
StepsLeftInJob ==
  IF pc = "progress" THEN 1
  ELSE IF pc = "export" THEN 2
  ELSE IF pc = "place"
       THEN (IF run.kind = "primary" THEN 6 ELSE 2)
            + (CASE run.stage = "resolve_assets"    -> 4
                 [] run.stage = "extract_features"  -> 3
                 [] run.stage = "resolve_placement" -> 2
                 [] run.stage = "composite"         -> 1)
       ELSE 0
StepsLeft ==
  IF pc = "done" THEN 0
  ELSE IF pc = "parse" THEN 12 * (MaxJobs + 1) + 2
  ELSE IF pc = "loop" THEN 12 * (Len(jobs) - idx + 1) + 1
  ELSE 12 * (Len(jobs) - idx) + 1 + StepsLeftInJob

\* The guards of the actions of Next; each action takes a step whenever its
\* guard holds.
CanStep ==
  \/ pc \in {"parse", "loop", "export", "progress"}
  \/ pc = "place" /\ run # None
       /\ run.stage \in {"resolve_assets", "extract_features", "resolve_placement", "composite"}

\* C16: whichever jobs fail, and also when the sheet cannot be parsed,
\* process_all_images returns to its caller: until it has returned
\* (pc = "done"; an exception leaving it would be pc = "raised") a step can be
\* taken, and every step lowers the natural number StepsLeft, so under the
\* fairness of SpecLive the return is reached.
C16_BatchReturns ==
  /\ [](StepsLeft \in Nat /\ (pc # "done" => CanStep))
  /\ [][StepsLeft' < StepsLeft]_vars

\* The function returned after a batch of two jobs that both failed.
C16_Witness ==
  /\ pc = "done" /\ jobs # None /\ Len(jobs) = 2
  /\ \A r \in 1..2 : \E k \in DOMAIN log : log[k].tag = "Failed Job" /\ log[k].row = r

\* The loop body of job r is over.
JobOver(r) == r < idx \/ (r = idx /\ pc \in {"progress", "done"})

FailedJobLines(r) == {k \in DOMAIN log : log[k].tag = "Failed Job" /\ log[k].row = r}

\* Job r ran to the end of its loop body: its export returned.
Completed(r) == \E e \in DOMAIN exported : exported[e].row = r /\ exported[e].ok

\* The message of the exception that ended job r: of its primary placement
\* when that raised, of export when that raised, else of the missing supplier.
OriginatingError(r) ==
  IF \E i \in DOMAIN placed : placed[i].row = r /\ placed[i].kind = "primary"
       /\ placed[i].result = None
  THEN LET i == CHOOSE i \in DOMAIN placed :
                  placed[i].row = r /\ placed[i].kind = "primary" /\ placed[i].result = None
       IN  placed[i].error
  ELSE IF \E e \in DOMAIN exported : exported[e].row = r /\ ~exported[e].ok
  THEN ErrExport
  ELSE ErrSupplier

\* C17: a job never has two "Failed Job" lines; once its loop body is over, a
\* job whose export returned has none, and any other job has exactly one,
\* which carries the job's Final Image Name and the message of the exception
\* that ended it.
C17_OneFailedJobLine ==
  \A r \in 1..Len(started) :
    /\ Cardinality(FailedJobLines(r)) <= 1
    /\ JobOver(r) =>
         IF Completed(r) THEN FailedJobLines(r) = {}
         ELSE \E k \in FailedJobLines(r) :
                /\ FailedJobLines(r) = {k}
                /\ log[k].name = jobs[r].name
                /\ log[k].error = OriginatingError(r)

\* A job that completed although its front run failed, followed by a job whose
\* export raised and that got its one line.
C17_Witness ==
  /\ Len(started) = 2 /\ JobOver(2)
  /\ Completed(1) /\ FailedJobLines(1) = {}
  /\ \E k \in DOMAIN log : log[k].row = 1 /\ log[k].tag = "Front image placement failed"
  /\ ~Completed(2) /\ Cardinality(FailedJobLines(2)) = 1 /\ OriginatingError(2) = ErrExport

\* The stage after each stage of place_logo_on_image.
StageAfter ==
  [resolve_assets    |-> "extract_features",
   extract_features  |-> "resolve_placement",
   resolve_placement |-> "composite",
   composite         |-> "returned"]

\* C18: a placement call starts at ResolveAssets and moves from a stage to the
\* next one only; it returns a path only from Composite, every other end
\* being an exception; the loop body leaves placement without exporting only
\* when the primary call raised; export is called outside any placement call
\* and is entered only with the primary composite of the job written, its path
\* being the one exported.
C18_StageOrder ==
  [][ /\ (run' # None /\ (run = None \/ run.kind # run'.kind)) =>
            (pc' = "place" /\ run'.stage = "resolve_assets")
      /\ (run # None /\ run' # None /\ run'.kind = run.kind /\ run'.stage # run.stage) =>
            run'.stage = StageAfter[run.stage]
      /\ (Len(placed') > Len(placed)) =>
            /\ pc = "place"
            /\ placed'[Len(placed')].result # None => run.stage = "composite"
      /\ (pc = "place" /\ pc' \notin {"place", "export"}) =>
            /\ Len(placed') > Len(placed)
            /\ placed'[Len(placed')].kind = "primary"
            /\ placed'[Len(placed')].result = None
      /\ (pc' = "export" /\ pc # "export") =>
            /\ run' = None
            /\ \E i \in DOMAIN placed' :
                 /\ placed'[i].row = idx /\ placed'[i].kind = "primary"
                 /\ placed'[i].result # None /\ interm' = placed'[i].result
      /\ (Len(exported') > Len(exported)) =>
            /\ pc = "export" /\ run = None
            /\ exported'[Len(exported')].path = interm
    ]_vars

\* A back job whose two placement calls returned and whose export returned.
C18_Witness ==
  \E e \in DOMAIN exported :
    /\ exported[e].ok
    /\ \E i, j \in DOMAIN placed :
         /\ i < j /\ placed[i].row = exported[e].row /\ placed[j].row = exported[e].row
         /\ placed[i].kind = "primary" /\ placed[i].result = exported[e].path
         /\ placed[j].kind = "front" /\ placed[j].result # None

\* C19: jobs are entered in increasing index order, one at a time; the
\* progress callback has been called once for each job whose loop body is
\* over, failed or not, the i-th call with (i * 100) div total; the values
\* never decrease and after a batch of at least one job the last is 100.
C19_ProgressPerJob ==
  /\ started = [i \in 1..Len(started) |-> i]
  /\ progress = [i \in 1..Len(progress) |-> (i * 100) \div Len(jobs)]
  /\ \A i, j \in DOMAIN progress : i <= j => progress[i] <= progress[j]
  /\ pc = "loop" => (Len(progress) = idx - 1 /\ Len(started) = idx - 1)
  /\ pc \in {"place", "export", "progress"} =>
       (Len(progress) = idx - 1 /\ Len(started) = idx)
  /\ (pc = "done" /\ Len(jobs) > 0) =>
       (Len(progress) = Len(jobs) /\ progress[Len(progress)] = 100)

\* A finished batch of two jobs, the first completed and the second failed,
\* that reported 50 and then 100.
C19_Witness ==
  /\ pc = "done" /\ Len(jobs) = 2 /\ progress = <<50, 100>>
  /\ \E e \in DOMAIN exported : exported[e].row = 1 /\ exported[e].ok
  /\ \E k \in DOMAIN log : log[k].row = 2 /\ log[k].tag = "Failed Job"

(***************************************************************************)
(* The GUI (src/gui/interface.py): every click on "Start Processing" runs  *)
(* process_all_images on a new thread; the button is never disabled.       *)
(* A thread is [pc, positioner, calls]: positioner is the identity of the  *)
(* mediapipe Pose object of its LogoPositioner (0: none yet), calls the    *)
(* number of detect_human_keypoints calls it has finished.                 *)
(***************************************************************************)
MaxThreads == 2          \* clicks on the button
MaxExtractCalls == 2     \* placement calls of one batch that reach line 227

\* LogoPositioner.__init__, line 16: a module-wide Pose object shared by
\* every LogoPositioner.
NewPose_Shared(count) == 1

\* LogoPositioner.__init__, line 16: self.pose is a new Pose object, the
\* count-plus-first one constructed.
NewPose(count) == count + 1

GuiInit ==
  /\ threads = <<>> /\ instances = 0
  /\ OrchIdle /\ ResIdle /\ BlendIdle /\ SizeIdle /\ AssetIdle /\ BgIdle

\* start_processing, lines 34-40: the paths are set, so a thread is spawned.
StartProcessing ==
  /\ Len(threads) < MaxThreads
  /\ threads' = Append(threads, [pc |-> "spawned", positioner |-> 0, calls |-> 0])
  /\ UNCHANGED <<instances, orchVars, resVars, blendVars, sizeVars, assetVars, bgVars>>

\* main.py lines 19-22 on thread t: parse_excel_file raises (the thread logs
\* and is done) or LogoPositioner(...) is constructed.
CreatePositioner(t) ==
  /\ threads[t].pc = "spawned"
  /\ \/ /\ threads' = [threads EXCEPT ![t].pc = "done"]
        /\ UNCHANGED instances
     \/ /\ instances' = instances + 1
        /\ threads' = [threads EXCEPT ![t].pc = "loop",
                                      ![t].positioner = NewPose(instances)]
  /\ UNCHANGED <<orchVars, resVars, blendVars, sizeVars, assetVars, bgVars>>

\* logo_positioner.py line 28 on thread t: self.pose.process(img_rgb) begins.
BeginExtract(t) ==
  /\ threads[t].pc = "loop" /\ threads[t].calls < MaxExtractCalls
  /\ threads' = [threads EXCEPT ![t].pc = "extract"]
  /\ UNCHANGED <<instances, orchVars, resVars, blendVars, sizeVars, assetVars, bgVars>>

\* self.pose.process returns (or raises) on thread t.
EndExtract(t) ==
  /\ threads[t].pc = "extract"
  /\ threads' = [threads EXCEPT ![t].pc = "loop", ![t].calls = @ + 1]
  /\ UNCHANGED <<instances, orchVars, resVars, blendVars, sizeVars, assetVars, bgVars>>

\* run_process, lines 44-52: process_all_images returned, the message box is
\* shown and the thread ends.
FinishThread(t) ==
  /\ threads[t].pc = "loop"
  /\ threads' = [threads EXCEPT ![t].pc = "done"]
  /\ UNCHANGED <<instances, orchVars, resVars, blendVars, sizeVars, assetVars, bgVars>>

GuiNext ==
  \/ StartProcessing
  \/ \E t \in DOMAIN threads :
       CreatePositioner(t) \/ BeginExtract(t) \/ EndExtract(t) \/ FinishThread(t)

SpecGui == GuiInit /\ [][GuiNext]_vars

(***************************************************************************)
(* Claims about the GUI threads, checked under SpecGui                     *)
(***************************************************************************)
\* C20: two threads are never inside pose.process of the same Pose object, and
\* no two threads hold the same Pose object.
C20_ExtractorPerWorker ==
  \A t, u \in DOMAIN threads :
    (t # u /\ threads[t].positioner # 0 /\ threads[u].positioner # 0) =>
      /\ threads[t].positioner # threads[u].positioner
      /\ (threads[t].pc = "extract" /\ threads[u].pc = "extract") =>
           threads[t].positioner # threads[u].positioner

\* Two threads inside pose.process at the same time.
C20_Witness ==
  \E t, u \in DOMAIN threads :
    t # u /\ threads[t].pc = "extract" /\ threads[u].pc = "extract"

(***************************************************************************)
(* Further claims about merge_logo_on_image, checked under SpecBlend       *)
(***************************************************************************)
\* The decoration pixel <<row, col>> that the anchor puts on base pixel p.
DecoPixelOn(p) == <<p[1] - bIn.position[2], p[2] - bIn.position[1]>>

\* alpha x decoration + (1 - alpha) x base at base pixel p, from decoration
\* pixel q.
BlendOf(p, q) ==
  [k \in 1..3 |-> BlendChannel(AlphaOf(bIn.logo, q), bIn.logo.px[q][k], bIn.base.px[p][k])]

\* C21: for a decoration of 3 or 4 channels, after one merge every base pixel
\* (r, c) for which (r - y, c - x) is a pixel of the decoration holds the blend
\* of that decoration pixel with the old base pixel, and every other base
\* pixel is unchanged.
C21_BlendWritesIntersection ==
  (Len(bOut) >= 1 /\ bIn.position # None /\ bIn.logo.ch \in {3, 4}) =>
    \A p \in DOMAIN bIn.base.px :
      bOut[1].px[p] = IF DecoPixelOn(p) \in DOMAIN bIn.logo.px
                      THEN BlendOf(p, DecoPixelOn(p))
                      ELSE bIn.base.px[p]

\* A merge at a negative x and a positive y whose decoration overhangs the
\* bottom edge, with part of it on the base, that changed the base.
C21_Witness ==
  /\ Len(bOut) >= 1 /\ bIn.position # None /\ bIn.logo.ch \in {3, 4}
  /\ bIn.position[1] < 0 /\ bIn.position[1] + bIn.logo.w >= 1
  /\ bIn.position[2] > 0 /\ bIn.position[2] < bIn.base.h
  /\ bIn.position[2] + bIn.logo.h > bIn.base.h
  /\ bOut[1] # bIn.base

\* The decoration rectangle and the base have no pixel in common.
NoIntersection ==
  \/ bIn.position[1] >= bIn.base.w \/ bIn.position[2] >= bIn.base.h
  \/ bIn.position[1] + bIn.logo.w <= 0 \/ bIn.position[2] + bIn.logo.h <= 0

\* C22: when the decoration rectangle does not intersect the base, the merge
\* returns the base with every pixel as it was (the function returns, it does
\* not raise: an exception inside it is caught at line 200).
C22_NoIntersectionNoOp ==
  (Len(bOut) >= 1 /\ bIn.position # None /\ NoIntersection) => bOut[1] = bIn.base

\* A decoration of 3 x 3 one column beyond the right edge, where the blend
\* raises inside the function, and one left of the base by its whole width.
C22_Witness ==
  /\ Len(bOut) >= 1 /\ bIn.position # None /\ bIn.logo.w >= 1 /\ bIn.logo.h >= 1
  /\ \/ /\ bIn.position[1] > bIn.base.w /\ bIn.position[2] = 0
        /\ MergeCore(bIn.base, bIn.logo, bIn.position).raised /\ bIn.logo.ch = 3
     \/ bIn.position[1] + bIn.logo.w = 0
  /\ bOut[1] = bIn.base

\* The base with the whole clipped rectangle blended in.
WholeRectangleWritten ==
  [bIn.base EXCEPT !.px =
     [p \in DOMAIN bIn.base.px |->
        IF DecoPixelOn(p) \in DOMAIN bIn.logo.px
        THEN BlendOf(p, DecoPixelOn(p))
        ELSE bIn.base.px[p]]]

\* C29: the merge is all-or-nothing: its result is the base as it was, or the
\* base with every pixel of the clipped rectangle written; never a part of the
\* rectangle.  The function always returns (lines 200-203 catch everything).
C29_MergeAllOrNothing ==
  Len(bOut) >= 1 =>
    \/ bOut[1] = bIn.base
    \/ /\ bIn.position # None /\ bIn.logo.ch \in {3, 4}
       /\ bOut[1] = WholeRectangleWritten

\* The blend raises on a shape mismatch after clipping (columns beyond the
\* right edge, rows overlapping the base) and the base comes back unchanged.
C29_Witness ==
  /\ Len(bOut) >= 1 /\ bIn.position # None /\ bIn.logo.ch = 4
  /\ bIn.position[2] = 1 /\ bIn.base.h = 2 /\ bIn.logo.h >= 2
  /\ bIn.position[1] > bIn.base.w
  /\ MergeCore(bIn.base, bIn.logo, bIn.position).raised
  /\ bOut[1] = bIn.base

(***************************************************************************)
(* remove_background (src/src/logo_positioner.py 131-144,                  *)
(* src/src/logo_positioner_simple.py 69-81).  Its argument is the photo    *)
(* read by cv2.imread with the default flag: 3 channels, B G R.            *)
(***************************************************************************)
\* cv2.cvtColor(image, cv2.COLOR_BGR2GRAY) on one 8-bit pixel: the weights
\* 0.114, 0.587, 0.299 in 15-bit fixed point, rounded to nearest.
BGR2GRAY(p) == (3735 * p[1] + 19235 * p[2] + 9798 * p[3] + 16384) \div 32768

\* A threshold that also takes the value 240 itself.
threshold_Inclusive(gray) == IF gray >= 240 THEN 255 ELSE 0

\* cv2.threshold(gray, 240, 255, cv2.THRESH_BINARY): maxval where src > thresh.
threshold(gray) == IF gray > 240 THEN 255 ELSE 0

\* cv2.bitwise_not on an 8-bit value.
bitwise_not(v) == 255 - v

\* cv2.bitwise_and(image, image, mask=m) on one pixel: the pixel where the mask
\* is non-zero, zeros elsewhere.
bitwise_and(p, m) == IF m # 0 THEN p ELSE [k \in DOMAIN p |-> 0]

remove_background(image) ==
  IF image = None THEN image
  ELSE [image EXCEPT !.px =
          [q \in DOMAIN image.px |->
             bitwise_and(image.px[q], bitwise_not(threshold(BGR2GRAY(image.px[q]))))]]

MaxPhoto == 3     \* photo sides range over 1..MaxPhoto

\* B, G, R colours around the threshold: greys of 239, 240, 241, white, black,
\* a light yellow (luminance 249) and a light blue (luminance 239).
Palette ==
  << <<240, 240, 240>>, <<241, 241, 241>>, <<239, 239, 239>>, <<255, 255, 255>>,
     <<0, 0, 0>>, <<200, 255, 255>>, <<255, 255, 200>> >>

Photos ==
  {Image(h, w, 3, LAMBDA r, c : Palette[(((r * w + c) * step + shift) % Len(Palette)) + 1]) :
     h \in 1..MaxPhoto, w \in 1..MaxPhoto, shift \in 0..(Len(Palette) - 1), step \in 1..2}

BgInit ==
  /\ gIn \in Photos
  /\ gOut = None
  /\ OrchIdle /\ ResIdle /\ BlendIdle /\ SizeIdle /\ AssetIdle /\ GuiIdle

RemoveBackground ==
  /\ gIn # None /\ gOut = None
  /\ gOut' = remove_background(gIn)
  /\ UNCHANGED <<gIn, orchVars, resVars, blendVars, sizeVars, assetVars, guiVars>>

BgNext == RemoveBackground

SpecBackground == BgInit /\ [][BgNext]_vars

Zeros == <<0, 0, 0>>

\* C23 as amended: remove_background zeroes every pixel whose grayscale
\* luminance is above 240 and returns every pixel of luminance 240 or less
\* with its colour.
C23_ZeroedAbove240 ==
  gOut # None =>
    \A q \in DOMAIN gIn.px :
      gOut.px[q] = IF BGR2GRAY(gIn.px[q]) > 240 THEN Zeros ELSE gIn.px[q]

\* A photo with a pixel of luminance exactly 240, kept, and one of 241, zeroed.
C23_Witness ==
  /\ gOut # None
  /\ \E q \in DOMAIN gIn.px :
       BGR2GRAY(gIn.px[q]) = 240 /\ gOut.px[q] = gIn.px[q] /\ gIn.px[q] # Zeros
  /\ \E q \in DOMAIN gIn.px :
       BGR2GRAY(gIn.px[q]) = 241 /\ gOut.px[q] = Zeros

\* C23 as stated: a pixel is zeroed exactly when its luminance is >= 240.
C23_ZeroedFrom240 ==
  gOut # None =>
    \A q \in DOMAIN gIn.px :
      gOut.px[q] = IF BGR2GRAY(gIn.px[q]) >= 240 THEN Zeros ELSE gIn.px[q]

\* C24 as amended: for w > 0, W > 0 and h > 0 the height is max(1, t) where t
\* is W * h / w truncated toward zero, not rounded to nearest: t is at most the
\* exact quotient and less than 1 below it (the floating-point product may
\* reach exactly 1 below, hence <=).  A decoration of height 0 comes back as
\* it is.  Stated without division.
C24_HeightTruncated ==
  (zOut # None /\ zIn.w > 0 /\ zIn.target_width > 0) =>
    IF zIn.h = 0 THEN zOut.h = 0
    ELSE /\ zOut.h >= 1
         /\ zOut.h > 1 => zOut.h * zIn.w <= zIn.target_width * zIn.h
         /\ (zOut.h + 1) * zIn.w >= zIn.target_width * zIn.h

\* A resize whose exact height has a fractional part above one half and whose
\* result is the integer below it.
C24_Witness ==
  /\ zOut # None /\ zOut.resized /\ zIn.w > 0 /\ zIn.target_width > 0
  /\ 2 * ((zIn.h * zIn.target_width) % zIn.w) > zIn.w
  /\ zOut.h > 1
  /\ zOut.h * zIn.w < zIn.target_width * zIn.h

\* C24 as stated: the height is the integer nearest to W * h / w (a tie may go
\* either way): 2 * |height * w - W * h| <= w.
C24_HeightRounded ==
  (zOut # None /\ zIn.w > 0 /\ zIn.target_width > 0) =>
    /\ 2 * (zOut.h * zIn.w - zIn.target_width * zIn.h) <= zIn.w
    /\ 2 * (zIn.target_width * zIn.h - zOut.h * zIn.w) <= zIn.w

(***************************************************************************)
(* Claims about label normalisation, checked under SpecResolve             *)
(***************************************************************************)
\* C25: the lookup of LogoPositioner (strip at line 225, upper() at line 100)
\* selects, for a label that is an entry of location_map up to letter case and
\* surrounding whitespace, that entry's index (in a photo with a pose, where
\* the lookup is reached).
C25_LabelVariantsSelectEntry ==
  (rOut # None /\ rOut.impl = "LogoPositioner" /\ rIn.pose # None) =>
    \A v \in Vocabulary :
      Upper(Strip(rIn.label)) = Upper(v) =>
        LocationMapGet(Upper(Strip(rIn.label))) = LocationMapGet(v)

\* _calculate_optimal_placement takes the chest branch or the back branch.
ChestOrBack ==
  LET dl == Lower(rIn.decoration_location)
      wl == Lower(rIn.label)
  IN  \/ AnyWord(WordsChest, dl, wl)
      \/ ~AnyWord(WordsSleeve, dl, wl) /\ AnyWord(WordsBack, dl, wl)

\* What CoordinateDetector returns for the same photo and labels and a
\* decoration of lh x lw.
AnchorsFor(lh, lw) ==
  calculate_optimal_placement(rIn.h, rIn.w, lh, lw, rIn.pose,
                              rIn.decoration_location, rIn.label)

\* C26 as amended: without keypoints, the anchor of SimpleLogoPositioner is the
\* one of the normalized label (it is given nothing of the decoration); the
\* chest and back placements of CoordinateDetector have
\* a y that is the same for every decoration size, and an x that is the same
\* for every decoration height and is (photo width - decoration width) div 2.
C26_AnchorInputs ==
  rOut # None =>
    /\ rOut.impl = "SimpleLogoPositioner" =>
         SimpleLogoPositioner_get_logo_position(Upper(Strip(rIn.label)), rIn.h, rIn.w) = rOut.pos
    /\ (rOut.impl = "CoordinateDetector" /\ rIn.pose = None /\ ChestOrBack) =>
         /\ rOut.pos[1] = (rIn.w - rIn.lw) \div 2
         /\ \A lh2 \in LogoDims, lw2 \in LogoDims :
              \A res \in AnchorsFor(lh2, lw2) :
                /\ res.y = rOut.pos[2]
                /\ lw2 = rIn.lw => res.x = rOut.pos[1]

\* A back placement without a pose whose x differs from the one of a
\* decoration of another width.
C26_Witness ==
  /\ rOut # None /\ rOut.impl = "CoordinateDetector" /\ rIn.pose = None
  /\ ChestOrBack /\ ~AnyWord(WordsChest, Lower(rIn.decoration_location), Lower(rIn.label))
  /\ rIn.lh > 1
  /\ \E lw2 \in LogoDims : \E res \in AnchorsFor(rIn.lh, lw2) : res.x # rOut.pos[1]

\* C26 as stated: without keypoints the anchor is the same for every
\* decoration size.
C26_AnchorIgnoresDecoration ==
  (rOut # None /\ rIn.pose = None) =>
    /\ rOut.impl = "SimpleLogoPositioner" =>
         SimpleLogoPositioner_get_logo_position(Strip(rIn.label), rIn.h, rIn.w) = rOut.pos
    /\ (rOut.impl = "CoordinateDetector" /\ ChestOrBack) =>
         \A lh2 \in LogoDims, lw2 \in LogoDims :
           \A res \in AnchorsFor(lh2, lw2) : <<res.x, res.y>> = rOut.pos

(***************************************************************************)
(* Claims about labels with several zone keywords, under SpecResolve       *)
(***************************************************************************)
FrontBackLabel  == <<"F","U","L","L","-","F","R","O","N","T","-","F","U","L","L","-","B","A","C","K">>
ChestSleeveLabel ==
  <<"R","I","G","H","T","-","C","H","E","S","T","-","L","E","F","T","-","S","L","E","E","V","E">>

\* The keywords of SimpleLogoPositioner in the claimed order, and their anchors.
SimpleOrder == <<KwFRONT, KwBACK, KwLEFT, KwRIGHT, KwCHEST, KwSLEEVE>>
SimpleAnchors(h, w) ==
  << <<w \div 2, h \div 3>>, <<w \div 2, h \div 2>>, <<w \div 4, h \div 3>>,
     <<(3 * w) \div 4, h \div 3>>, <<w \div 2, h \div 4>>, <<w \div 2, h \div 2>> >>

\* The word groups of CoordinateDetector in the claimed order, and where each
\* group's placement puts a decoration of width lw when no pose was found.
DetectorOrder == <<WordsChest, WordsSleeve, WordsBack, WordsCollar, WordsPocket>>
DetectorAnchors(h, w, lw) ==
  << <<(w - lw) \div 2, h \div 4>>, <<w \div 8, h \div 3>>, <<(w - lw) \div 2, h \div 6>>,
     <<(w - lw) \div 2, h \div 20>>, <<w \div 6, h \div 3>> >>

\* The least element of a set of positions in an order, 0 when there is none.
First(hits) == IF hits = {} THEN 0 ELSE CHOOSE i \in hits : \A j \in hits : i <= j

\* C30: a label with several zone keywords is classified by the first keyword,
\* in a fixed order, that it contains, wherever the keywords stand in it:
\* FRONT, BACK, LEFT, RIGHT, CHEST, SLEEVE in SimpleLogoPositioner (so that
\* FULL-FRONT-FULL-BACK gets the FRONT anchor and RIGHT-CHEST-LEFT-SLEEVE the
\* LEFT anchor (w div 4, h div 3)); chest/front/center, sleeve/arm, back,
\* collar/neck, pocket in CoordinateDetector (seen where no pose was found, by
\* the anchor of the group's placement).
C30_FirstKeywordInOrder ==
  rOut # None =>
    /\ rOut.impl = "SimpleLogoPositioner" =>
         LET label == Upper(Strip(rIn.label))
             k == First({i \in DOMAIN SimpleOrder : Contains(label, SimpleOrder[i])})
         IN  /\ k # 0 => rOut.pos = SimpleAnchors(rIn.h, rIn.w)[k]
             /\ rIn.label = FrontBackLabel => rOut.pos = <<rIn.w \div 2, rIn.h \div 3>>
             /\ rIn.label = ChestSleeveLabel => rOut.pos = <<rIn.w \div 4, rIn.h \div 3>>
    /\ (rOut.impl = "CoordinateDetector" /\ rIn.pose = None) =>
         LET g == First({i \in DOMAIN DetectorOrder :
                           AnyWord(DetectorOrder[i], Lower(rIn.decoration_location),
                                   Lower(rIn.label))})
         IN  g # 0 => rOut.pos = DetectorAnchors(rIn.h, rIn.w, rIn.lw)[g]

\* RIGHT-CHEST-LEFT-SLEEVE resolved by SimpleLogoPositioner on a photo wide
\* enough for the LEFT anchor to differ from the RIGHT and CHEST anchors.
C30_Witness ==
  /\ rOut # None /\ rOut.impl = "SimpleLogoPositioner"
  /\ rIn.label = ChestSleeveLabel /\ rIn.w >= 4 /\ rIn.h >= 3
  /\ rOut.pos = <<rIn.w \div 4, rIn.h \div 3>>
  /\ rOut.pos # <<(3 * rIn.w) \div 4, rIn.h \div 3>>
  /\ rOut.pos # <<rIn.w \div 2, rIn.h \div 4>>

(***************************************************************************)
(* Claims about the order of placement, front run and export, under Spec   *)
(***************************************************************************)
PrimaryRaised(r) ==
  \E i \in DOMAIN placed :
    placed[i].row = r /\ placed[i].kind = "primary" /\ placed[i].result = None

ExportsOf(r) == {e \in DOMAIN exported : exported[e].row = r}

\* C27: a job whose primary placement raised has no front run and no export;
\* a job is exported at most once, only with its primary placement returned
\* and its front run (the label naming a back zone) finished, and exactly
\* once by the end of a loop body whose primary placement returned.
C27_ExportAfterPlacement ==
  \A r \in 1..Len(started) :
    /\ PrimaryRaised(r) => (FrontRuns(r) = {} /\ ExportsOf(r) = {})
    /\ Cardinality(ExportsOf(r)) <= 1
    /\ ExportsOf(r) # {} =>
         /\ PrimaryOk(r)
         /\ ~(idx = r /\ pc = "place")
         /\ is_back_location(jobs[r].label) => FrontRuns(r) # {}
    /\ (JobOver(r) /\ PrimaryOk(r)) => Cardinality(ExportsOf(r)) = 1

\* A finished batch: job 1 exported once after its front run raised, job 2
\* not exported because its primary placement raised.
C27_Witness ==
  /\ pc = "done" /\ jobs # None /\ Len(jobs) = 2
  /\ PrimaryOk(1) /\ Cardinality(ExportsOf(1)) = 1
  /\ \E i \in FrontRuns(1) : placed[i].result = None
  /\ PrimaryRaised(2) /\ ExportsOf(2) = {}

\* C28: the derived front run leaves the job as the primary call got it (same
\* label, same name), has another name and writes to another path than the
\* primary call, and export gets the primary call's path and the job's name.
C28_FrontVariantApart ==
  \A i \in DOMAIN placed :
    placed[i].kind = "front" =>
      LET r == placed[i].row
      IN  /\ i > 1 /\ placed[i - 1].row = r /\ placed[i - 1].kind = "primary"
          /\ jobs[r].label = placed[i - 1].label
          /\ jobs[r].name = placed[i - 1].name
          /\ placed[i].name # placed[i - 1].name
          /\ placed[i].result # None => placed[i].result # placed[i - 1].result
          /\ \A e \in ExportsOf(r) :
               /\ exported[e].path = placed[i - 1].result
               /\ exported[e].name = placed[i - 1].name

\* A job whose front run wrote its own file and whose export then returned.
C28_Witness ==
  \E i \in DOMAIN placed :
    /\ placed[i].kind = "front" /\ placed[i].result # None
    /\ \E e \in ExportsOf(placed[i].row) :
         exported[e].ok /\ exported[e].path = OutputPath(jobs[placed[i].row].name)

====
